---- MODULE Spec2Model ----
(***************************************************************************)
(* Model of the armpp register-field layer: the bit-mask utility           *)
(* (armpp/util/mask.hpp), the two field storage strategies of              *)
(* detail::register_data (direct bit-field and masked word), and the       *)
(* register field arrays with their element accessors                      *)
(* (armpp/hal/registers.hpp).                                              *)
(*                                                                         *)
(* A raw_register (std::uint32_t) is modelled as its bit vector: the set   *)
(* of the positions 0..31 that hold a one.  The C++ operators on it are    *)
(* then  a & b = a \cap b,  a | b = a \cup b,  a << n = the positions      *)
(* moved up by n with those leaving the 32-bit word dropped, and           *)
(* a >> n = the positions moved down by n.  Numeric literals of the        *)
(* source and of the claims enter through Bits.                            *)
(***************************************************************************)
EXTENDS Integers, Sequences, FiniteSets, TLC

\* ------------------------------------------------------------------------
\* Bounds of the model

\* the largest number passed to set() as a value (besides the all-ones word)
MaxVal == 7
\* the most set() calls made on one field
MaxSets == 2
\* template arguments tried for bit_sequence / bit_mask run from 0 to this
MaxParam == 33
\* the most assignments made through accessors of one field array
MaxArrSets == 1
\* the most stores made to the NVIC
MaxNvicSets == 2
\* the most times the system clock's tick is advanced
MaxTicks == 4
\* the most calls of the UART driver and events of its devices
MaxUartCalls == 4

\* ------------------------------------------------------------------------
\* raw_register and the built-in operators on it

register_bits == 32

BitPos == 0 .. (register_bits - 1)

raw_register == SUBSET BitPos

\* the 32-bit vector of a literal 0 <= n < 2^31
Bits(n) == {b \in 0 .. (register_bits - 2) : (n \div (2 ^ b)) % 2 = 1}

AllOnes == BitPos

BitAnd(a, b) == a \cap b

BitOr(a, b) == a \cup b

\* a << n on std::uint32_t, 0 <= n < 32: bits shifted past bit 31 are lost
Shl(a, n) == {b + n : b \in a} \cap BitPos

\* a >> n on std::uint32_t, 0 <= n < 32
Shr(a, n) == {b - n : b \in {x \in a : x >= n}}

\* ------------------------------------------------------------------------
\* armpp::util::bit_sequence / bit_mask (compile-time)

\* whether bit_sequence<Length, std::uint32_t> can be instantiated: the
\* primary template requires Length <= 32 and needs bit_sequence<Length - 1>;
\* for Length = 0 that is bit_sequence<SIZE_MAX>, which the requires-clause
\* rejects.
RECURSIVE bit_sequence_ok(_)
bit_sequence_ok(Length) ==
    IF Length = 1 THEN TRUE
    ELSE IF Length = 0 \/ Length > register_bits THEN FALSE
    ELSE bit_sequence_ok(Length - 1)

\* variant: the recursion shifts without or-ing the low bit in
bit_sequence_noor(Length) == Shl(Bits(1), Length - 1)

RECURSIVE bit_sequence(_)
bit_sequence(Length) ==
    IF Length = 1 THEN Bits(1)
    ELSE BitOr(Shl(bit_sequence(Length - 1), 1), Bits(1))

bit_mask_ok(Offset, Length) ==
    Length + Offset <= register_bits /\ bit_sequence_ok(Length)

bit_mask(Offset, Length) == Shl(bit_sequence(Length), Offset)

\* bit_mask_v<Offset, Length, raw_register>: the constant of each
\* instantiation that is well-formed
bit_mask_v ==
    [p \in {q \in (0 .. register_bits) \X (0 .. register_bits) :
                bit_mask_ok(q[1], q[2])} |-> bit_mask(p[1], p[2])]

\* ------------------------------------------------------------------------
\* State

VARIABLES
    \* bit_mask<m_Offset, m_Length>: the template arguments, whether the
    \* instantiation was made ("declared", "ok", "ill_formed"), and ::value
    m_Offset, m_Length, m_state, m_value,
    \* one register field: its template arguments Access, Offset, Size
    Access, Offset, Size,
    \* the wrapper it is declared with ("read_write", "read_only",
    \* "write_only": read_write_register_field, ...)
    kind,
    \* whether the field's definition has been compiled ("declared": not yet;
    \* "ok": accepted, the field object exists; "ill_formed": rejected)
    f_state,
    \* its storage word (register_ of the masked strategy; the word that
    \* holds pad_ and value_ of the direct bit-field strategy)
    register_,
    \* the storage word before the first call and before the last call, the
    \* values passed to set() so far in call order, and the last call made
    \* with its argument and result ([op, arg, ret], op "none" before any call)
    word0, pre, sets, last,
    \* the last comparison made on the field ([op, arg, ret]: the operator,
    \* its other operand (a value, or the storage word of the other field) and
    \* the boolean it returned; op "none" before any comparison)
    cmp,
    \* one register field array: its template arguments [FieldSize,
    \* FieldCount, RegisterCount, FieldStorageSize, InitialOffset]
    arr,
    \* its backing words data_[0 .. RegisterCount - 1]
    data_,
    \* the accessor last returned by operator[] ([reg_, offset_], reg_ the
    \* number of the word of data_ it points to or nullptr; index is the
    \* index it was asked for; live is FALSE before the first operator[])
    acc,
    \* data_ before the last call, the last call made on the array or on the
    \* accessor ([op, index, val, ret, touched], touched the numbers of the
    \* words of data_ the call read or wrote), and the number of accessor
    \* assignments made
    apre, alast, nsets,
    \* the memory word that follows data_[RegisterCount - 1] (the next member
    \* of the device structure): what an access past the array reaches
    beyond,
    \* a masked-word set in the foreground, instruction by instruction
    \* ([pc, value, tmp]: pc "idle" before the call, "loaded" once register_
    \* has been loaded into tmp, "done" once the or-ed word has been stored;
    \* value is the argument of set)
    fg,
    \* an interrupt handler that calls set on a field of the same word
    \* ([state, Offset, Size, value, at]: state "pending" or "done"; Offset and
    \* Size its field; value the argument it passed; at the foreground's pc
    \* when it ran)
    irq,
    \* the NVIC device: the words of its register arrays as the code's stores
    \* leave them (nvic[member][n] is word n of the member; what the
    \* hardware does on a store is not in the source)
    nvic,
    \* the last call made on the NVIC ([op, irqn, member, touched, offset,
    \* delta, ret]: the member accessed, the numbers of its words read or
    \* written, their byte offsets from the start of the device, the bits
    \* <<member, word, bit>> the call changed, and whether a query returned
    \* true), and the number of stores made
    nv_last, nv_sets,
    \* the SysTick device: the word of its control and status register (the
    \* union control_status_register: enable at bit 0, handler_enable at bit
    \* 1, source at bit 2, count_flag at bit 16), and the last call made on
    \* the device ([op, arg, ret], arg and ret as words)
    control_status_, st_last,
    \* a UART device: the words of its data register (the field <<0, 8>>) and
    \* of its state register (tx_buffer_full at bit 0, rx_buffer_full at bit
    \* 1, both read-only for the program: the device sets and clears them)
    u_data, u_state,
    \* the call in progress on the UART ([op, pc, arg, ret, rx, spun]: op
    \* "none", "get" or "put"; pc "idle", "wait" (in the while loop), "pass"
    \* (the loop has been left) or "returned"; arg the character of put; ret
    \* the result of get; rx whether rx_buffer_full was set when get read the
    \* data register; spun whether the loop body has run)
    u_call,
    \* a timer device: the words of its control register (enable at bit 0,
    \* ext_enable at bit 1, ext_clock at bit 2, interrupt_enable at bit 3),
    \* of its value and reload registers and of its interrupt register (set
    \* and reset, both at bit 0)
    ctrl_, value_, reload_, interrupt_,
    \* the call of timer_handle::delay in progress ([pc, ticks, at_start,
    \* seen, cleared]: pc the statement to execute next, "idle" before any
    \* call and "returned" after the last statement; ticks the argument;
    \* at_start the control, value and reload words that device_.start()
    \* found; seen whether the loop has read the interrupt flag set; cleared
    \* whether the store of interrupt_.reset = 1 has been made)
    t_call,
    \* the last call of scb::irqn_to_index ([op, irqn, index])
    x_last,
    \* the system clock (the static clock instance_): its tick counter as a
    \* word and its frequency in hertz; the word of the SysTick reload value
    \* register, which system_init writes; the last call made on the clock
    \* ([op, tick, frequency, ret]: the tick and frequency the call found);
    \* and the number of times the tick has been advanced
    tick_, system_frequency_, reload_value_, c_last, c_ticks,
    \* the UART driver: the registers of the device at each address
    \* ([data_, state_, ctrl_, interrupt_, bauddiv_]); the table handlers
    \* (slots 1 .. uart_count); the last call made on the driver ([op, device,
    \* this, slot, asserted, steps, trace, init, frequency, before]: the
    \* device it was made for, the object process_interrupt() ran on, the slot
    \* get_handlers returned, whether assert(false) was reached, the steps of
    \* the dispatch, and for configure the device after each store, the
    \* arguments and the device before); the devices
    \* get_handlers was called for so far; the number of calls and events
    uarts, handlers, h_last, h_used, h_calls

mvars == <<m_Offset, m_Length, m_state, m_value>>
fvars ==
    <<Access, Offset, Size, kind, f_state, register_, word0, pre, sets, last, cmp>>
avars == <<arr, data_, acc, apre, alast, nsets, beyond>>
vars ==
    <<mvars, fvars, avars, fg, irq, nvic, nv_last, nv_sets, control_status_,
      st_last, u_data, u_state, u_call, ctrl_, value_, reload_, interrupt_,
      t_call, x_last, tick_, system_frequency_, reload_value_, c_last,
      c_ticks, uarts, handlers, h_last, h_used, h_calls>>

\* ------------------------------------------------------------------------
\* detail::register_data: the storage strategies

\* the bits [Offset, Offset + Size) that the bit-field value_ occupies after
\* the Offset bits of pad_
value_bits(O, S) == {b \in BitPos : O <= b /\ b < O + S}

\* register_data<T, Offset, Size, access_mode::field>::get: return value_
field_get(O, S, word) == Shr(BitAnd(word, value_bits(O, S)), O)

\* register_data<T, 0, Size, access_mode::field>::get
field0_get(S, word) == BitAnd(word, value_bits(0, S))

\* variant: the bit-field is or-ed into, its old bits are not cleared
field_set_or(O, S, word, value) ==
    BitOr(word, Shl(BitAnd(value, value_bits(0, S)), O))

\* register_data<T, Offset, Size, access_mode::field>::set: value_ = value
\* stores the low Size bits of value in the bit-field, other bits are kept
field_set(O, S, word, value) ==
    BitOr(word \ value_bits(O, S), Shl(BitAnd(value, value_bits(0, S)), O))

\* register_data<T, 0, Size, access_mode::field>::set
field0_set(S, word, value) ==
    BitOr(word \ value_bits(0, S), BitAnd(value, value_bits(0, S)))

\* register_data<..., access_mode::bitwise_logic>::mask
mask(O, S) == bit_mask_v[<<O, S>>]

\* variant: the word is masked without being shifted down
masked_get_noshift(O, S, word) == BitAnd(word, mask(O, S))

\* variant: the word is shifted without being masked
masked_get_nomask(O, S, word) == Shr(word, O)

\* register_data<..., access_mode::bitwise_logic>::get
masked_get(O, S, word) == Shr(BitAnd(word, mask(O, S)), O)

\* variant: the field is cleared before the value is or-ed in (an overwrite)
masked_set_overwrite(O, S, word, value) ==
    BitOr(word \ mask(O, S), BitAnd(Shl(value, O), mask(O, S)))

\* variant: the shifted value is or-ed in without being masked
masked_set_nomask(O, S, word, value) == BitOr(word, Shl(value, O))

\* variant: the value is or-ed in at bit 0, not at Offset
masked_set_noshift(O, S, word, value) == BitOr(word, BitAnd(value, mask(O, S)))

\* register_data<..., access_mode::bitwise_logic>::set:
\* register_ |= (static_cast<raw_register>(value) << Offset) & mask
masked_set(O, S, word, value) == BitOr(word, BitAnd(Shl(value, O), mask(O, S)))

\* variant: the store or-s into the word as it is in memory at the time of
\* the store (as a single or-to-memory instruction would)
masked_set_store_fresh(O, S, loaded, value) == masked_set(O, S, register_, value)

\* register_ |= x on the volatile word, second half: the word stored is the
\* word loaded before with x or-ed in
masked_set_store(O, S, loaded, value) == masked_set(O, S, loaded, value)

\* the specialisation register_field_base<T, Offset, Size, Access> selects
register_data_get(A, O, S, word) ==
    IF A = "bitwise_logic" THEN masked_get(O, S, word)
    ELSE IF O = 0 THEN field0_get(S, word)
    ELSE field_get(O, S, word)

register_data_set(A, O, S, word, value) ==
    IF A = "bitwise_logic" THEN masked_set(O, S, word, value)
    ELSE IF O = 0 THEN field0_set(S, word, value)
    ELSE field_set(O, S, word, value)

\* register_field_base::operator==(register_field_base const& other), the
\* other field stored in the word other_word: get() == other.get()
field_eq_field(A, O, S, word, other_word) ==
    register_data_get(A, O, S, word) = register_data_get(A, O, S, other_word)

\* register_field_base::operator==(value_type const& other):
\* return get() == get()
field_eq_value(A, O, S, word, other) ==
    register_data_get(A, O, S, word) = register_data_get(A, O, S, word)

\* register_field_base::operator!=(register_field_base const& other)
field_ne_field(A, O, S, word, other_word) ==
    ~field_eq_field(A, O, S, word, other_word)

\* register_field_base::operator!=(value_type const& other)
field_ne_value(A, O, S, word, other) == ~field_eq_value(A, O, S, word, other)

\* operator==(T const& rhs, register_field_base const& lhs): lhs == rhs
value_eq_field(A, O, S, rhs, word) == field_eq_value(A, O, S, word, rhs)

\* variant: the read-only wrapper also names set in a using-declaration
exposed_ro_set(k) ==
    IF k = "read_write"
    THEN {"operator==", "operator!=", "operator<", "get", "operator value_type",
          "set", "operator="}
    ELSE IF k = "read_only"
    THEN {"operator==", "operator!=", "operator<", "get", "operator value_type",
          "set"}
    ELSE {"set", "operator="}

\* the members of register_field_base (all protected there) that the
\* wrapper k makes public with using-declarations; a call of any other
\* member on a field does not compile
exposed(k) ==
    IF k = "read_write"
    THEN {"operator==", "operator!=", "operator<", "get", "operator value_type",
          "set", "operator="}
    ELSE IF k = "read_only"
    THEN {"operator==", "operator!=", "operator<", "get", "operator value_type"}
    ELSE {"set", "operator="}

\* variant: the requires-clause lets one bit too many through
field_requires_offbyone(O, S) == O + S <= register_bits + 1

\* requires(Offset + Size <= register_bits) of register_field_base
field_requires(O, S) == O + S <= register_bits

\* whether register_data<T, Offset, Size, Access> can be instantiated: the
\* masked strategy names bit_mask_v<Offset, Size>; the bit-field strategy
\* declares value_ : Size, and a named bit-field of width zero is ill-formed
\* (a bit-field wider than its type is not: the excess bits are padding)
register_data_ok(A, O, S) ==
    IF A = "bitwise_logic" THEN bit_mask_ok(O, S) ELSE S >= 1

\* the fields of either strategy that can be defined
register_field_ok(O, S) == S >= 1 /\ O + S <= register_bits

\* ------------------------------------------------------------------------
\* detail::array_field_accessor_base and register_field_array_base

\* the template arguments of a register field array
ArrayOf(fs, fc, rc, fss, io) ==
    [FieldSize |-> fs, FieldCount |-> fc, RegisterCount |-> rc,
     FieldStorageSize |-> fss, InitialOffset |-> io]

\* requires(RegisterCount > 0 && FieldCount * FieldStorageSize
\*          + InitialOffset <= RegisterCount * register_bits), and FieldSize
\* must instantiate bit_mask_v<0, FieldSize>
register_field_array_ok(a) ==
    /\ a.RegisterCount > 0
    /\ a.FieldCount * a.FieldStorageSize + a.InitialOffset
          <= a.RegisterCount * register_bits
    /\ bit_mask_ok(0, a.FieldSize)

\* mask = util::bit_mask_v<0, FieldSize> of the array and of its accessors
array_mask(FieldSize) == bit_mask_v[<<0, FieldSize>>]

\* data_[n]; for n past the array the access reaches the memory that
\* follows it
ReadWord(data, n) == IF n \in DOMAIN data THEN data[n] ELSE beyond

\* data_[n] = w: the words of the array after the store
WriteWord(data, n, w) ==
    IF n \in DOMAIN data THEN [data EXCEPT ![n] = w] ELSE data

\* data_[n] = w: the word that follows the array after the store
WriteBeyond(data, n, w) == IF n \in DOMAIN data THEN beyond ELSE w

\* the null pointer; any other pointer into data_ is the number of the word
\* it points to
nullptr == 0 - 1

\* accessor_type{}: value-initialised, reg_ is the null pointer
null_accessor == [reg_ |-> nullptr, offset_ |-> 0]

\* variant: the bound check lets index = FieldCount through
array_get_offbyone(a, data, index) ==
    IF index > a.FieldCount
    THEN [ret |-> Bits(0), touched |-> {}]
    ELSE LET bit_number == index * a.FieldStorageSize + a.InitialOffset
             reg_number == bit_number \div register_bits
             reg_offset == bit_number % register_bits
         IN  [ret |-> BitAnd(Shr(ReadWord(data, reg_number), reg_offset),
                             array_mask(a.FieldSize)),
              touched |-> {reg_number}]

\* variant: the element's bit number is computed with FieldSize as the
\* stride and without InitialOffset
array_get_nostride(a, data, index) ==
    IF index >= a.FieldCount
    THEN [ret |-> Bits(0), touched |-> {}]
    ELSE LET bit_number == index * a.FieldSize
             reg_number == bit_number \div register_bits
             reg_offset == bit_number % register_bits
         IN  [ret |-> BitAnd(Shr(ReadWord(data, reg_number), reg_offset),
                             array_mask(a.FieldSize)),
              touched |-> {reg_number}]

\* register_field_array_base::get(index)
array_get(a, data, index) ==
    IF index >= a.FieldCount
    THEN [ret |-> Bits(0), touched |-> {}]
    ELSE LET bit_number == index * a.FieldStorageSize + a.InitialOffset
             reg_number == bit_number \div register_bits
             reg_offset == bit_number % register_bits
         IN  [ret |-> BitAnd(Shr(ReadWord(data, reg_number), reg_offset),
                             array_mask(a.FieldSize)),
              touched |-> {reg_number}]

\* variant: the bound check lets index = FieldCount through
get_accessor_offbyone(a, index) ==
    IF index > a.FieldCount
    THEN null_accessor
    ELSE LET bit_number == index * a.FieldStorageSize + a.InitialOffset
         IN  [reg_ |-> bit_number \div register_bits,
              offset_ |-> bit_number % register_bits]

\* register_field_array_base::get_accessor(index)
get_accessor(a, index) ==
    IF index >= a.FieldCount
    THEN null_accessor
    ELSE LET bit_number == index * a.FieldStorageSize + a.InitialOffset
             reg_number == bit_number \div register_bits
             reg_offset == bit_number % register_bits
         IN  [reg_ |-> reg_number, offset_ |-> reg_offset]

\* array_field_accessor_base<T, Size>::get
accessor_get(Size_, ac, data) ==
    IF ac.reg_ = nullptr
    THEN [ret |-> Bits(0), touched |-> {}]
    ELSE [ret |-> BitAnd(Shr(ReadWord(data, ac.reg_), ac.offset_),
                         array_mask(Size_)),
          touched |-> {ac.reg_}]

\* array_field_accessor_base<T, Size>::set:
\* *reg_ |= (static_cast<raw_register>(val) & mask) << offset_
accessor_set(Size_, ac, data, val) ==
    IF ac.reg_ = nullptr
    THEN [data |-> data, beyond |-> beyond, touched |-> {}]
    ELSE LET w == BitOr(ReadWord(data, ac.reg_),
                        Shl(BitAnd(val, array_mask(Size_)), ac.offset_))
         IN  [data |-> WriteWord(data, ac.reg_, w),
              beyond |-> WriteBeyond(data, ac.reg_, w),
              touched |-> {ac.reg_}]

\* ------------------------------------------------------------------------
\* The NVIC device (armpp/hal/nvic.hpp)

interrupt_reg_count == 8

interrupt_count == 240

\* sizeof(raw_register)
sizeof_raw_register == 4

\* an address (std::uint32_t) as its upper and lower 16 bits
address(hi, lo) == <<hi, lo>>

\* a - b on addresses, a >= b
address_minus(a, b) == (a[1] - b[1]) * 65536 + (a[2] - b[2])

\* the address constants of nvic_registers (0xe000e100, 0xe000e180, ...)
nvic_base_address == address(57344, 57600)

nvic_bases ==
    [iser_ |-> nvic_base_address, icer_ |-> address(57344, 57728),
     ispr_ |-> address(57344, 57856), icpr_ |-> address(57344, 57984),
     iabr_ |-> address(57344, 58112), ip_ |-> address(57344, 58368),
     stir_ |-> address(57344, 61184)]

\* 0xe000ef04, the address the full-size assertion names
nvic_end_address == address(57344, 61188)

\* the register arrays among the members of nvic_registers
nvic_bit_array == ArrayOf(1, interrupt_count, interrupt_reg_count, 1, 0)

nvic_arrays ==
    [iser_ |-> nvic_bit_array, icer_ |-> nvic_bit_array,
     ispr_ |-> nvic_bit_array, icpr_ |-> nvic_bit_array,
     iabr_ |-> nvic_bit_array,
     ip_ |-> ArrayOf(8, interrupt_count, interrupt_count \div 4, 8, 0),
     stir_ |-> ArrayOf(1, 9, 1, 1, 0)]

\* variant: reserved_4_ is as long as the other reserved blocks
nvic_registers_short ==
    << [name |-> "iser_", words |-> nvic_arrays.iser_.RegisterCount],
       [name |-> "reserved_0_", words |-> 24],
       [name |-> "icer_", words |-> nvic_arrays.icer_.RegisterCount],
       [name |-> "reserved_1_", words |-> 24],
       [name |-> "ispr_", words |-> nvic_arrays.ispr_.RegisterCount],
       [name |-> "reserved_2_", words |-> 24],
       [name |-> "icpr_", words |-> nvic_arrays.icpr_.RegisterCount],
       [name |-> "reserved_3_", words |-> 24],
       [name |-> "iabr_", words |-> nvic_arrays.iabr_.RegisterCount],
       [name |-> "reserved_4_", words |-> 24],
       [name |-> "ip_", words |-> nvic_arrays.ip_.RegisterCount],
       [name |-> "reserved_5_", words |-> 644],
       [name |-> "stir_", words |-> nvic_arrays.stir_.RegisterCount] >>

\* the non-static data members of nvic_registers in declaration order, each
\* with its size in words: a register array (or a union of register arrays
\* of one shape) is its data_[RegisterCount], a reserved block is an array of
\* raw_register
nvic_registers ==
    << [name |-> "iser_", words |-> nvic_arrays.iser_.RegisterCount],
       [name |-> "reserved_0_", words |-> 24],
       [name |-> "icer_", words |-> nvic_arrays.icer_.RegisterCount],
       [name |-> "reserved_1_", words |-> 24],
       [name |-> "ispr_", words |-> nvic_arrays.ispr_.RegisterCount],
       [name |-> "reserved_2_", words |-> 24],
       [name |-> "icpr_", words |-> nvic_arrays.icpr_.RegisterCount],
       [name |-> "reserved_3_", words |-> 24],
       [name |-> "iabr_", words |-> nvic_arrays.iabr_.RegisterCount],
       [name |-> "reserved_4_", words |-> 56],
       [name |-> "ip_", words |-> nvic_arrays.ip_.RegisterCount],
       [name |-> "reserved_5_", words |-> 644],
       [name |-> "stir_", words |-> nvic_arrays.stir_.RegisterCount] >>

\* the byte offset of the k-th member of a structure whose members are all
\* arrays of 32-bit words (the same alignment, so no padding): the sizes of
\* the members before it; for k = Len + 1, the size of the structure
RECURSIVE layout_offset(_, _)
layout_offset(members, k) ==
    IF k = 1 THEN 0
    ELSE layout_offset(members, k - 1)
            + members[k - 1].words * sizeof_raw_register

\* offsetof(nvic_registers, member) and sizeof(nvic)
nvic_offsetof ==
    [m \in {nvic_registers[k].name : k \in DOMAIN nvic_registers} |->
        layout_offset(nvic_registers,
            CHOOSE k \in DOMAIN nvic_registers : nvic_registers[k].name = m)]

nvic_sizeof == layout_offset(nvic_registers, Len(nvic_registers) + 1)

\* static_cast<std::uint32_t>(n) of an int32: n modulo 2^32, as a word
uint32_cast(n) == IF n >= 0 THEN Bits(n) ELSE BitPos \ Bits((-n) - 1)

\* the number the bits below i of a word stand for
RECURSIVE low_bits_value(_, _)
low_bits_value(word, i) ==
    IF i = 0 THEN 0
    ELSE (IF (i - 1) \in word THEN 2 ^ (i - 1) ELSE 0)
            + low_bits_value(word, i - 1)

\* variant: the index is the magnitude of irqn
irqn_index_magnitude(irqn) == IF irqn < 0 THEN -irqn ELSE irqn

\* static_cast<std::uint32_t>(irqn), the index passed to operator[]: the
\* number the word stands for; a word of 2^31 or more (a negative irqn) is
\* passed as 2^31 - 1, the largest index held, which like it is above every
\* FieldCount the index is compared with before any other use
irqn_index(irqn) ==
    LET word == uint32_cast(irqn)
    IN  IF (register_bits - 1) \in word THEN 2 ^ 30 + (2 ^ 30 - 1)
        ELSE low_bits_value(word, register_bits - 1)

\* iser_.set[index] = set_t::set and the like: the accessor operator[]
\* returns is assigned the value 1
nvic_store(mem, member, index) ==
    LET a == get_accessor(nvic_arrays[member], index)
        r == accessor_set(nvic_arrays[member].FieldSize, a, mem[member], Bits(1))
    IN  [mem |-> [mem EXCEPT ![member] = r.data], touched |-> r.touched]

\* iser_.get[index] == enabled_t::enabled and the like, on the const device
nvic_query(mem, member, index) ==
    LET r == array_get(nvic_arrays[member], mem[member], index)
    IN  [ret |-> (r.ret = Bits(1)), touched |-> r.touched]

\* the bits <<member, word, bit>> in which two contents of the device
\* differ
nvic_delta(old, new) ==
    UNION {UNION {{<<m, n, b>> : b \in (old[m][n] \ new[m][n])
                                         \cup (new[m][n] \ old[m][n])} :
                    n \in DOMAIN old[m]} :
             m \in DOMAIN old}

\* the member each function of nvic accesses
nvic_store_member ==
    [enable_irq |-> "iser_", disable_irq |-> "icer_", set_pending |-> "ispr_",
     clear_pending |-> "icpr_"]

nvic_query_member ==
    [irq_enabled |-> "iser_", is_pending |-> "ispr_", is_active |-> "iabr_"]

\* ------------------------------------------------------------------------
\* The SysTick device (armpp/hal/systick.hpp)

\* enum class clock_source_t { external_clock = 0, core_clock = 1 }
external_clock == Bits(0)

core_clock == Bits(1)

\* systick::enable / disable: control_status_.enable = true / false on the
\* bool field at bit 0 (a bool field is a direct bit-field)
systick_set_enable(csr, value) == register_data_set("field", 0, 1, csr, value)

\* systick::enabled
systick_enabled(csr) == register_data_get("field", 0, 1, csr)

\* systick::handler_enable / handler_disable, the bool field at bit 1
systick_set_handler_enable(csr, value) ==
    register_data_set("field", 1, 1, csr, value)

\* systick::handler_enabled
systick_handler_enabled(csr) == register_data_get("field", 1, 1, csr)

\* systick::set_source: control_status_.source = value, source being
\* read_write_register_field<clock_source_t, 2, 1, access_mode::bitwise_logic>
systick_set_source(csr, value) ==
    register_data_set("bitwise_logic", 2, 1, csr, value)

\* systick::source
systick_source(csr) == register_data_get("bitwise_logic", 2, 1, csr)

\* systick::count_flag, the masked field at bit 16
systick_count_flag(csr) == register_data_get("bitwise_logic", 16, 1, csr)

\* ------------------------------------------------------------------------
\* The UART device (armpp/hal/uart.hpp)

\* uart::tx_buffer_full: state_.tx_buffer_full, the bool field at bit 0
uart_tx_buffer_full(state) == register_data_get("field", 0, 1, state) = Bits(1)

\* uart::rx_buffer_full: state_.rx_buffer_full, the bool field at bit 1
uart_rx_buffer_full(state) == register_data_get("field", 1, 1, state) = Bits(1)

\* the condition of the while loop of uart::get: while (!tx_buffer_full())
uart_get_waiting(state) == ~uart_tx_buffer_full(state)

\* the condition of the while loop of uart::put: while (tx_buffer_full())
uart_put_waiting(state) == uart_tx_buffer_full(state)

\* data_.get() of read_write_register_field<raw_register, 0, 8>
uart_data_get(data) == register_data_get("field", 0, 8, data)

\* data_ = static_cast<raw_register>(c)
uart_data_set(data, c) == register_data_set("field", 0, 8, data, c)

\* ------------------------------------------------------------------------
\* The timer device (armpp/hal/timer.hpp)

\* timer::start: ctrl_.enable = true, the bool field at bit 0
timer_start(ctrl) == register_data_set("field", 0, 1, ctrl, Bits(1))

\* variant: stop leaves the control register as it is
timer_stop_skipped(ctrl) == ctrl

\* timer::stop: ctrl_.enable = false
timer_stop(ctrl) == register_data_set("field", 0, 1, ctrl, Bits(0))

\* timer::get_interrupt: interrupt_.set, the read-only bool field at bit 0
timer_get_interrupt(interrupt) ==
    register_data_get("field", 0, 1, interrupt) = Bits(1)

\* timer::clear_interrupt: interrupt_.reset = 1, the write-only field at
\* bit 0
timer_clear_interrupt(interrupt) ==
    register_data_set("field", 0, 1, interrupt, Bits(1))

\* timer::enable_inrerrupt: ctrl_.interrupt_enable = true, the bool field at
\* bit 3
timer_enable_inrerrupt(ctrl) == register_data_set("field", 3, 1, ctrl, Bits(1))

\* timer::disable_iterrupt: ctrl_.interrupt_enable = false
timer_disable_iterrupt(ctrl) == register_data_set("field", 3, 1, ctrl, Bits(0))

\* timer::reset: value_ = 0, the raw field <<0, 32>>
timer_reset(value) == register_data_set("field", 0, 32, value, Bits(0))

\* timer::set_reload: reload_ = val, the raw field <<0, 32>>
timer_set_reload(reload, val) == register_data_set("field", 0, 32, reload, val)

\* the statements of timer_handle::delay in order: each one and the one
\* executed after it
delay_next ==
    [pc \in {"stop", "reset", "enable_inrerrupt", "set_reload", "start",
             "stop2", "disable_iterrupt", "clear_interrupt", "reset2"} |->
        CASE pc = "stop" -> "reset"
          [] pc = "reset" -> "enable_inrerrupt"
          [] pc = "enable_inrerrupt" -> "set_reload"
          [] pc = "set_reload" -> "start"
          [] pc = "start" -> "wait"
          [] pc = "stop2" -> "disable_iterrupt"
          [] pc = "disable_iterrupt" -> "clear_interrupt"
          [] pc = "clear_interrupt" -> "reset2"
          [] pc = "reset2" -> "returned"]

\* ------------------------------------------------------------------------
\* The system handler priority index (scb::irqn_to_index, src/timer.cpp)

\* namespace cm3::irqn: the processor exceptions
cm3_irqn ==
    [non_maskable_int |-> -14, hard_fault |-> -13, memory_management |-> -12,
     bus_fault |-> -11, usage_fault |-> -10, svcall |-> -5,
     debug_monitor |-> -4, pensv |-> -2, systick |-> -1]

\* enum class system_handler_index_t
system_handler_index_t ==
    [mem_manage_fault |-> 0, bus_fault |-> 1, usage_fault |-> 2,
     sv_call |-> 7, debug_monitor |-> 8, pend_sv |-> 10, sys_tick |-> 11]

\* the elements of system_handler_priority_register
system_handler_count == 12

\* a - b modulo 2^32, bit by bit from bit i with a borrow
RECURSIVE uint32_minus_from(_, _, _, _)
uint32_minus_from(a, b, i, borrow) ==
    IF i = register_bits THEN {}
    ELSE LET ai == i \in a
             bi == i \in b
             diff == (ai # bi) # borrow
             out == (~ai /\ (bi \/ borrow)) \/ (bi /\ borrow)
         IN  (IF diff THEN {i} ELSE {}) \cup uint32_minus_from(a, b, i + 1, out)

uint32_minus(a, b) == uint32_minus_from(a, b, 0, FALSE)

\* static_cast of a std::uint32_t to an enumeration over int: the word read
\* as a two's complement number
int32_cast(word) ==
    IF (register_bits - 1) \in word
    THEN (-low_bits_value(BitPos \ word, register_bits - 1)) - 1
    ELSE low_bits_value(word, register_bits - 1)

\* variant: the index is the low four bits, 4 is not subtracted
irqn_to_index_nosub(irqn) == int32_cast(BitAnd(uint32_cast(irqn), Bits(15)))

\* scb::irqn_to_index: (static_cast<std::uint32_t>(irqn) & 0xf) - 4
irqn_to_index(irqn) ==
    int32_cast(uint32_minus(BitAnd(uint32_cast(irqn), Bits(15)), Bits(4)))

\* ------------------------------------------------------------------------
\* The system clock (armpp/hal/system.hpp, src/system.cpp)

\* variant: the counter stops at its largest value
increment_tick_saturating(tick) ==
    IF tick = AllOnes THEN tick
    ELSE LET z == CHOOSE b \in BitPos :
                     b \notin tick /\ \A c \in 0 .. (b - 1) : c \in tick
         IN  {b \in tick : b > z} \cup {z}

\* clock::increment_tick: ++tick_ on a std::uint32_t; the carry runs through
\* the low bits that are set and is dropped after bit 31
increment_tick(tick) ==
    IF tick = AllOnes THEN Bits(0)
    ELSE LET z == CHOOSE b \in BitPos :
                     b \notin tick /\ \A c \in 0 .. (b - 1) : c \in tick
         IN  {b \in tick : b > z} \cup {z}

\* clock::ticks_per_millisecond: system_frequency_.count() / 1000
ticks_per_millisecond(frequency) == frequency \div 1000

\* systick::set_reload_value: reload_value_ = value, the raw field <<0, 24>>
systick_set_reload_value(reload, value) ==
    register_data_set("field", 0, 24, reload, value)

\* ------------------------------------------------------------------------
\* Inputs

\* <<Offset, Size>> of the fields modelled: the masked fields of the
\* repository (systick source <<2,1>>, count_flag <<16,1>>, uart bauddiv
\* <<0,20>>), direct fields of the repository (<<1,1>>, <<3,1>>, <<7,22>>,
\* <<16,16>>), and the corner cases <<5,3>>, <<31,1>>, <<0,32>>
FieldSpecs ==
    { <<2, 1>>, <<16, 1>>, <<0, 20>>, <<1, 1>>, <<3, 1>>, <<7, 22>>,
      <<16, 16>>, <<5, 3>>, <<31, 1>>, <<0, 32>> }

\* the values passed to set()
Vals == {Bits(n) : n \in 0 .. MaxVal} \cup {AllOnes}

\* the contents a storage word may have before the first call
AltBits == {b \in BitPos : b % 2 = 1}

InitWords == {Bits(0), AllOnes, AltBits}

\* template arguments Offset and Size tried in field definitions
DeclOffsets == {0, 5, 16, 31, 32, 33}

DeclSizes == {0, 1, 3, 16, 17, 27, 28, 32, 33}

\* the fields of one word that the foreground and the interrupt handler set
RaceFields == {<<2, 1>>, <<16, 1>>, <<5, 3>>}

\* the interrupt numbers passed to the functions of nvic
NvicIrqns == {0, 31, 32, 239, 240, -1, -14}

\* the contents of the SysTick control and status register before the first
\* call: any of its four bits on or off
SystickWords == SUBSET {0, 1, 2, 16}

\* the characters sent and received
UartChars == {Bits(0), Bits(65), Bits(255)}

\* the contents of the storage words of the fields compared
CmpWords == InitWords \cup {Bits(160), Bits(4)}

\* the field arrays modelled: those of the repository (the NVIC enable,
\* pending and active bits, the NVIC priorities, the software trigger
\* register, the system handler priorities, the auxiliary fault status
\* bits), one whose elements are stored wider than they are and start at an
\* offset, and one whose elements are three bits wide
ArrSpecs ==
    { ArrayOf(1, 240, 8, 1, 0), ArrayOf(8, 240, 60, 8, 0),
      ArrayOf(1, 9, 1, 1, 0), ArrayOf(8, 12, 3, 8, 0),
      ArrayOf(1, 32, 1, 1, 0), ArrayOf(4, 6, 2, 8, 8),
      ArrayOf(3, 21, 2, 3, 0) }

\* template arguments of register_field_array_base beyond those the
\* repository uses: every combination of a few small values, of which the
\* requires-clause accepts some
LayoutSpecs ==
    { ArrayOf(fs, fc, rc, fss, io) :
        fs \in {1, 8}, fc \in {1, 4}, rc \in {1, 2}, fss \in {0, 1, 8},
        io \in {0, 32, 64} }

\* a very large index, 2^31 - 1 (std::size_t is 32 bits wide on the target)
BigIndex == 2 ^ 30 + (2 ^ 30 - 1)

\* the indexes passed to operator[]
Indexes(a) ==
    {0, 10, 31, 32, a.FieldCount - 1, a.FieldCount, a.FieldCount + 1, BigIndex}

\* the values assigned through an accessor
ArrVals == {Bits(0), Bits(5), AllOnes}

\* ------------------------------------------------------------------------
\* Initial states

NoCall == [op |-> "none", arg |-> Bits(0), ret |-> Bits(0)]

NoCmp == [op |-> "none", arg |-> Bits(0), ret |-> FALSE]

NoNvicCall ==
    [op |-> "none", irqn |-> 0, member |-> "iser_", touched |-> {},
     offset |-> {}, delta |-> {}, ret |-> FALSE]

NoUartCall ==
    [op |-> "none", pc |-> "idle", arg |-> Bits(0), ret |-> Bits(0),
     rx |-> FALSE, spun |-> FALSE]

\* the words of a value or reload register and the arguments of delay
TimerWords == {Bits(0), Bits(2), AllOnes}

NoDelay ==
    [pc |-> "idle", ticks |-> Bits(0),
     at_start |-> [ctrl |-> Bits(0), value |-> Bits(0), reload |-> Bits(0)],
     seen |-> FALSE, cleared |-> FALSE]

\* the interrupt numbers irqn_to_index is applied to: the processor
\* exceptions and the external interrupts
IndexIrqns == cm3_irqn.non_maskable_int .. (interrupt_count - 1)

NoIndexCall == [op |-> "none", irqn |-> 0, index |-> 0]

\* the values of ARMPP_SYSTEM_FREQUENCY, in hertz: 54_MHz (the toolchain
\* file's), one below a kilohertz and one that is no multiple of 1000
ClockFrequencies == {54000000, 999, 25000500}

\* numbers of consecutive calls of system_tick
TickBursts == {1000, 2 ^ 30 + (2 ^ 30 - 1)}

NoClockCall == [op |-> "none", tick |-> Bits(0), frequency |-> 0, ret |-> 0]

\* ------------------------------------------------------------------------
\* The UART driver (uart.cpp): configuration, the handler table, interrupt
\* dispatch and the vector handlers

\* addresses.hpp: apb1periph_base = 0x40000000
apb1periph_base == 2 ^ 30

\* uart0_address = apb1periph_base + 0x4000
uart0_address == apb1periph_base + 16384

\* uart1_address = apb1periph_base + 0x5000
uart1_address == apb1periph_base + 20480

\* rtc_address = apb1periph_base + 0x6000: the address of a third device a
\* uart_handle can be constructed on
rtc_address == apb1periph_base + 24576

\* constexpr std::size_t uart_count = 2
uart_count == 2

\* std::array<address, uart_count> uart_devices{uart0_address, uart1_address}
uart_devices == <<uart0_address, uart1_address>>

\* a bool converted to the value of a one bit field
bool_bits(b) == IF b THEN Bits(1) ELSE Bits(0)

\* control_register<> new_ctrl (raw{0}) and the seven assignments to its
\* fields at bits 0 .. 6
uart_new_ctrl(init) ==
    LET c0 == Bits(0)
        c1 == register_data_set("field", 0, 1, c0, bool_bits(init.enable.tx))
        c2 == register_data_set("field", 1, 1, c1, bool_bits(init.enable.rx))
        c3 == register_data_set("field", 2, 1, c2,
                                bool_bits(init.enable_interrupt.tx))
        c4 == register_data_set("field", 3, 1, c3,
                                bool_bits(init.enable_interrupt.rx))
        c5 == register_data_set("field", 4, 1, c4,
                                bool_bits(init.enable_overrun_interrupt.tx))
        c6 == register_data_set("field", 5, 1, c5,
                                bool_bits(init.enable_overrun_interrupt.rx))
    IN  register_data_set("field", 6, 1, c6,
                          bool_bits(init.enable_hs_test_mode))

\* variant: the assignment of the baud divisor replaces the field
bauddiv_assign_replace(bauddiv, value) ==
    BitOr(bauddiv \ mask(0, 20), BitAnd(value, mask(0, 20)))

\* bauddiv_ = value on read_write_register_field<raw_register, 0, 20,
\* access_mode::bitwise_logic>
bauddiv_assign(bauddiv, value) ==
    register_data_set("bitwise_logic", 0, 20, bauddiv, value)

\* bauddiv_.get()
bauddiv_get(bauddiv) == register_data_get("bitwise_logic", 0, 20, bauddiv)

\* uart::configure(init) on the device dev with the system frequency
\* frequency (in Hz): the device after each of its eight stores, in order
uart_configure(dev, init, frequency) ==
    LET s1 == [dev EXCEPT !.data_ = uart_data_set(@, Bits(0))]
        s2 == [s1 EXCEPT !.state_ = Bits(0)]
        s3 == [s2 EXCEPT !.ctrl_ = Bits(0)]
        s4 == [s3 EXCEPT !.interrupt_ = Bits(0)]
        s5 == [s4 EXCEPT !.bauddiv_ = bauddiv_assign(@, Bits(0))]
        s6 == [s5 EXCEPT !.ctrl_ = Bits(0)]
        s7 == [s6 EXCEPT !.ctrl_ = uart_new_ctrl(init)]
        s8 == [s7 EXCEPT !.bauddiv_ =
                   bauddiv_assign(@, Bits(frequency \div init.baud_rate))]
    IN  <<s1, s2, s3, s4, s5, s6, s7, s8>>

\* uart_handlers(): address and the four callbacks are nullptr
uart_handlers ==
    [address |-> nullptr, tx_callback |-> nullptr, rx_callback |-> nullptr,
     tx_ovr_callback |-> nullptr, rx_ovr_callback |-> nullptr]

\* the loop of get_handlers from slot i on (slots are numbered from 1); slot
\* 0 stands for the end of the loop, where assert(false) is
RECURSIVE get_handlers_from(_, _, _)
get_handlers_from(tbl, device, i) ==
    IF i > uart_count THEN [slot |-> 0, handlers |-> tbl]
    ELSE IF tbl[i].address = device THEN [slot |-> i, handlers |-> tbl]
    ELSE IF tbl[i].address = nullptr
         THEN [slot |-> i, handlers |-> [tbl EXCEPT ![i].address = device]]
    ELSE get_handlers_from(tbl, device, i + 1)

\* variant: the first slot is returned whoever holds it
get_handlers_first(tbl, device) ==
    [slot |-> 1, handlers |-> [tbl EXCEPT ![1].address = device]]

\* get_handlers(device): the slot returned and the table afterwards
get_handlers(tbl, device) == get_handlers_from(tbl, device, 1)

\* what a call of get_handlers(device) can do: return the slot found; or,
\* no slot found, reach assert(false), which ends the program (slot 0) or,
\* compiled out under NDEBUG, lets the function flow off its end and return
\* any reference (undefined behaviour: any slot of the table)
get_handlers_outcomes(tbl, device) ==
    LET r == get_handlers(tbl, device)
    IN  IF r.slot # 0
        THEN {[slot |-> r.slot, handlers |-> r.handlers, asserted |-> FALSE]}
        ELSE {[slot |-> i, handlers |-> tbl, asserted |-> TRUE] :
                 i \in 0 .. uart_count}

\* uart::tx_interrupt(): interrupt_.tx_interrupt, the bool field at bit 0
uart_tx_interrupt(interrupt) ==
    register_data_get("field", 0, 1, interrupt) = Bits(1)

\* uart::rx_interrupt(): interrupt_.rx_interrupt, the bool field at bit 1
uart_rx_interrupt(interrupt) ==
    register_data_get("field", 1, 1, interrupt) = Bits(1)

\* uart::clear_tx_interrupt(): interrupt_.tx_interrupt_reset = 1, the
\* write-only field at bit 0
uart_clear_tx_interrupt(interrupt) ==
    register_data_set("field", 0, 1, interrupt, Bits(1))

\* uart::clear_rx_interrupt(): interrupt_.rx_interrupt_reset = 1, the
\* write-only field at bit 1
uart_clear_rx_interrupt(interrupt) ==
    register_data_set("field", 1, 1, interrupt, Bits(1))

\* uart::tx_buffer_overrun(): state_.tx_buffer_overrun, the field at bit 2
uart_tx_buffer_overrun(state) ==
    register_data_get("field", 2, 1, state) = Bits(1)

\* uart::rx_buffer_overrun(): state_.rx_buffer_overrun, the field at bit 3
uart_rx_buffer_overrun(state) ==
    register_data_get("field", 3, 1, state) = Bits(1)

\* one step of a handler: a store to the interrupt register or the call of
\* the callback cb with the argument arg, made for the device at address
\* device
Step(ev, device, cb, arg) ==
    [ev |-> ev, device |-> device, cb |-> cb, arg |-> arg]

\* variant: the callback is called first, the interrupt is cleared after
process_interrupt_late_clear(device, dev, hndlrs) ==
    IF uart_rx_interrupt(dev.interrupt_) /\ hndlrs.rx_callback # nullptr
    THEN <<Step("rx_callback", device, hndlrs.rx_callback,
                uart_data_get(dev.data_)),
           Step("clear_rx_interrupt", device, nullptr, Bits(0))>>
    ELSE IF uart_tx_interrupt(dev.interrupt_) /\ hndlrs.tx_callback # nullptr
    THEN <<Step("tx_callback", device, hndlrs.tx_callback, Bits(0)),
           Step("clear_tx_interrupt", device, nullptr, Bits(0))>>
    ELSE <<>>

\* uart::process_interrupt() of the device dev at address device, hndlrs
\* its slot of the table: the steps it takes, in order
process_interrupt(device, dev, hndlrs) ==
    IF uart_rx_interrupt(dev.interrupt_) /\ hndlrs.rx_callback # nullptr
    THEN <<Step("clear_rx_interrupt", device, nullptr, Bits(0)),
           Step("rx_callback", device, hndlrs.rx_callback,
                uart_data_get(dev.data_))>>
    ELSE IF uart_tx_interrupt(dev.interrupt_) /\ hndlrs.tx_callback # nullptr
    THEN <<Step("clear_tx_interrupt", device, nullptr, Bits(0)),
           Step("tx_callback", device, hndlrs.tx_callback, Bits(0))>>
    ELSE <<>>

\* uart::process_overrun_interrupt()
process_overrun_interrupt(device, dev, hndlrs) ==
    IF uart_tx_buffer_overrun(dev.state_) /\ hndlrs.tx_ovr_callback # nullptr
    THEN <<Step("tx_ovr_callback", device, hndlrs.tx_ovr_callback, Bits(0))>>
    ELSE IF uart_rx_buffer_overrun(dev.state_)
            /\ hndlrs.rx_ovr_callback # nullptr
    THEN <<Step("rx_ovr_callback", device, hndlrs.rx_ovr_callback, Bits(0))>>
    ELSE <<>>

\* the interrupt register after the steps: each clear stores 1 to its reset
\* field; the register then reads as stored or, the device clearing the
\* status on the write, with the flag off
interrupt_after(interrupt, steps) ==
    LET rx == \E i \in DOMAIN steps : steps[i].ev = "clear_rx_interrupt"
        tx == \E i \in DOMAIN steps : steps[i].ev = "clear_tx_interrupt"
        stored == IF rx THEN uart_clear_rx_interrupt(interrupt)
                  ELSE IF tx THEN uart_clear_tx_interrupt(interrupt)
                  ELSE interrupt
    IN  {stored,
         stored \ ((IF rx THEN {1} ELSE {}) \cup (IF tx THEN {0} ELSE {}))}

\* the vector handlers: the address each constructs its uart_handle on
\* (uart0_handler: uart0_address; uart1_handler: uart0_address)
vector_device == [uart0_handler |-> uart0_address,
                  uart1_handler |-> uart0_address]

\* the device of each vector (the interrupt that enters the handler)
vector_of == [uart0_handler |-> uart0_address,
              uart1_handler |-> uart1_address]

\* the devices calls are made on, the configurations passed to configure
\* and the members of uart_handlers the setters assign
UartAddresses == {uart0_address, uart1_address, rtc_address}

TxRx(t, r) == [tx |-> t, rx |-> r]

UartInits ==
    {[enable |-> TxRx(TRUE, TRUE), enable_interrupt |-> TxRx(TRUE, TRUE),
      enable_overrun_interrupt |-> TxRx(TRUE, TRUE), baud_rate |-> 115200,
      enable_hs_test_mode |-> FALSE],
     [enable |-> TxRx(TRUE, FALSE), enable_interrupt |-> TxRx(FALSE, TRUE),
      enable_overrun_interrupt |-> TxRx(FALSE, FALSE), baud_rate |-> 9600,
      enable_hs_test_mode |-> TRUE]}

Callbacks == {"tx_callback", "rx_callback", "tx_ovr_callback",
              "rx_ovr_callback"}

\* a device out of reset: every register reads 0
UartReset ==
    [data_ |-> Bits(0), state_ |-> Bits(0), ctrl_ |-> Bits(0),
     interrupt_ |-> Bits(0), bauddiv_ |-> Bits(0)]

NoDriverCall ==
    [op |-> "none", device |-> nullptr, slot |-> 0, asserted |-> FALSE,
     this |-> nullptr, steps |-> <<>>, trace |-> <<>>, init |-> 0,
     frequency |-> 0, before |-> UartReset]

MaskIdle ==
    /\ m_Offset = 0
    /\ m_Length = 1
    /\ m_state = "declared"
    /\ m_value = Bits(0)

FieldIdle ==
    /\ Access = "field"
    /\ kind = "read_write"
    /\ f_state = "ok"
    /\ Offset = 0
    /\ Size = 1
    /\ register_ = Bits(0)
    /\ word0 = Bits(0)
    /\ pre = Bits(0)
    /\ sets = <<>>
    /\ last = NoCall
    /\ cmp = NoCmp

NoAccessor == [live |-> FALSE, reg_ |-> nullptr, offset_ |-> 0, index |-> 0]

NoArrCall ==
    [op |-> "none", index |-> 0, val |-> Bits(0), ret |-> Bits(0), touched |-> {}]

ArrIdle ==
    /\ arr = ArrayOf(1, 32, 1, 1, 0)
    /\ data_ = [n \in 0 .. 0 |-> Bits(0)]
    /\ acc = NoAccessor
    /\ apre = data_
    /\ alast = NoArrCall
    /\ nsets = 0
    /\ beyond = Bits(0)

\* every component but those of S is as it is before any use: the field
\* of a race has made no store, every word of a device is zero and no call
\* has been made on it
IdleBut(S) ==
    /\ IF "mask" \in S THEN TRUE ELSE MaskIdle
    /\ IF "field" \in S THEN TRUE ELSE FieldIdle
    /\ IF "array" \in S THEN TRUE ELSE ArrIdle
    /\ IF "race" \in S THEN TRUE
       ELSE /\ fg = [pc |-> "idle", value |-> Bits(0), tmp |-> Bits(0)]
            /\ irq = [state |-> "done", Offset |-> 0, Size |-> 1,
                      value |-> Bits(0), at |-> "idle"]
    /\ IF "nvic" \in S THEN TRUE
       ELSE /\ nvic = [m \in DOMAIN nvic_arrays |->
                         [n \in 0 .. (nvic_arrays[m].RegisterCount - 1) |->
                             Bits(0)]]
            /\ nv_last = NoNvicCall
            /\ nv_sets = 0
    /\ IF "systick" \in S THEN TRUE
       ELSE control_status_ = Bits(0) /\ st_last = NoCall
    /\ IF "uart" \in S THEN TRUE
       ELSE u_data = Bits(0) /\ u_state = Bits(0) /\ u_call = NoUartCall
    /\ IF "timer" \in S THEN TRUE
       ELSE /\ ctrl_ = Bits(0) /\ value_ = Bits(0) /\ reload_ = Bits(0)
            /\ interrupt_ = Bits(0) /\ t_call = NoDelay
    /\ IF "index" \in S THEN TRUE ELSE x_last = NoIndexCall
    /\ IF "clock" \in S THEN TRUE
       ELSE /\ tick_ = Bits(0) /\ system_frequency_ = 0
            /\ reload_value_ = Bits(0) /\ c_last = NoClockCall /\ c_ticks = 0
    /\ IF "driver" \in S THEN TRUE
       ELSE /\ uarts = [a \in UartAddresses |-> UartReset]
            /\ handlers = [i \in 1 .. uart_count |-> uart_handlers]
            /\ h_last = NoDriverCall /\ h_used = {} /\ h_calls = 0

\* the variables of every component but those of S keep their values
Frame(S) ==
    /\ IF "mask" \in S THEN TRUE ELSE UNCHANGED mvars
    /\ IF "field" \in S THEN TRUE ELSE UNCHANGED fvars
    /\ IF "array" \in S THEN TRUE ELSE UNCHANGED avars
    /\ IF "race" \in S THEN TRUE ELSE UNCHANGED <<fg, irq>>
    /\ IF "nvic" \in S THEN TRUE ELSE UNCHANGED <<nvic, nv_last, nv_sets>>
    /\ IF "systick" \in S THEN TRUE ELSE UNCHANGED <<control_status_, st_last>>
    /\ IF "uart" \in S THEN TRUE ELSE UNCHANGED <<u_data, u_state, u_call>>
    /\ IF "timer" \in S THEN TRUE
       ELSE UNCHANGED <<ctrl_, value_, reload_, interrupt_, t_call>>
    /\ IF "index" \in S THEN TRUE ELSE UNCHANGED x_last
    /\ IF "clock" \in S THEN TRUE
       ELSE UNCHANGED <<tick_, system_frequency_, reload_value_, c_last,
                        c_ticks>>
    /\ IF "driver" \in S THEN TRUE
       ELSE UNCHANGED <<uarts, handlers, h_last, h_used, h_calls>>

ArrInit ==
    /\ arr \in {a \in ArrSpecs : register_field_array_ok(a)}
    /\ \E w \in InitWords : data_ = [n \in 0 .. (arr.RegisterCount - 1) |-> w]
    /\ acc = NoAccessor
    /\ apre = data_
    /\ alast = NoArrCall
    /\ nsets = 0
    /\ beyond = Bits(0)

FieldInit(A) ==
    /\ Access = A
    /\ kind = "read_write"
    /\ f_state = "ok"
    /\ \E f \in FieldSpecs :
        /\ register_field_ok(f[1], f[2])
        /\ Offset = f[1]
        /\ Size = f[2]
    /\ register_ \in InitWords
    /\ word0 = register_
    /\ pre = register_
    /\ sets = <<>>
    /\ last = NoCall
    /\ cmp = NoCmp

MaskInit ==
    /\ m_Offset \in 0 .. MaxParam
    /\ m_Length \in 0 .. MaxParam
    /\ m_state = "declared"
    /\ m_value = Bits(0)

\* ------------------------------------------------------------------------
\* Actions

\* bit_mask_v<m_Offset, m_Length> is named: the compiler instantiates it or
\* rejects the program
Instantiate ==
    /\ m_state = "declared"
    /\ IF bit_mask_ok(m_Offset, m_Length)
       THEN /\ m_state' = "ok"
            /\ m_value' = bit_mask(m_Offset, m_Length)
       ELSE /\ m_state' = "ill_formed"
            /\ m_value' = m_value
    /\ UNCHANGED <<m_Offset, m_Length>>
    /\ Frame({"mask"})

\* read_write_register_field<T, Offset, Size, Access> is named in a
\* declaration: register_field_base's requires-clause is checked, then its
\* base register_data is instantiated; the compiler accepts or rejects
DefineField ==
    /\ f_state = "declared"
    /\ f_state' = IF field_requires(Offset, Size)
                       /\ register_data_ok(Access, Offset, Size)
                   THEN "ok" ELSE "ill_formed"
    /\ UNCHANGED <<Access, Offset, Size, kind, register_, word0, pre, sets,
                   last, cmp>>
    /\ Frame({"field"})

\* field.set(value)
Set ==
    /\ f_state = "ok"
    /\ "set" \in exposed(kind)
    /\ Len(sets) < MaxSets
    /\ \E value \in Vals :
        /\ register_' = register_data_set(Access, Offset, Size, register_, value)
        /\ sets' = Append(sets, value)
        /\ last' = [op |-> "set", arg |-> value, ret |-> Bits(0)]
    /\ pre' = register_
    /\ UNCHANGED <<Access, Offset, Size, kind, f_state, word0, cmp>>
    /\ Frame({"field"})

\* field.get()
Get ==
    /\ f_state = "ok"
    /\ "get" \in exposed(kind)
    /\ last' = [op |-> "get", arg |-> Bits(0),
                ret |-> register_data_get(Access, Offset, Size, register_)]
    /\ pre' = register_
    /\ UNCHANGED <<Access, Offset, Size, kind, f_state, register_, word0, sets,
                   cmp>>
    /\ Frame({"field"})

\* field = value: register_field_base::operator=(set_value_type const&)
Assign ==
    /\ f_state = "ok"
    /\ "operator=" \in exposed(kind)
    /\ Len(sets) < MaxSets
    /\ \E value \in Vals :
        /\ register_' = register_data_set(Access, Offset, Size, register_, value)
        /\ sets' = Append(sets, value)
        /\ last' = [op |-> "assign", arg |-> value, ret |-> Bits(0)]
    /\ pre' = register_
    /\ UNCHANGED <<Access, Offset, Size, kind, f_state, word0, cmp>>
    /\ Frame({"field"})

\* value_type v = field: register_field_base::operator value_type
Convert ==
    /\ f_state = "ok"
    /\ "operator value_type" \in exposed(kind)
    /\ last' = [op |-> "convert", arg |-> Bits(0),
                ret |-> register_data_get(Access, Offset, Size, register_)]
    /\ pre' = register_
    /\ UNCHANGED <<Access, Offset, Size, kind, f_state, register_, word0, sets,
                   cmp>>
    /\ Frame({"field"})

\* field == value
EqValue ==
    /\ f_state = "ok"
    /\ "operator==" \in exposed(kind)
    /\ \E v \in Vals :
        cmp' = [op |-> "eq_value", arg |-> v,
                ret |-> field_eq_value(Access, Offset, Size, register_, v)]
    /\ UNCHANGED <<Access, Offset, Size, kind, f_state, register_, word0, pre,
                   sets, last>>
    /\ Frame({"field"})

\* field != value
NeValue ==
    /\ f_state = "ok"
    /\ "operator!=" \in exposed(kind)
    /\ \E v \in Vals :
        cmp' = [op |-> "ne_value", arg |-> v,
                ret |-> field_ne_value(Access, Offset, Size, register_, v)]
    /\ UNCHANGED <<Access, Offset, Size, kind, f_state, register_, word0, pre,
                   sets, last>>
    /\ Frame({"field"})

\* value == field
ValueEq ==
    /\ f_state = "ok"
    /\ "operator==" \in exposed(kind)
    /\ \E v \in Vals :
        cmp' = [op |-> "value_eq", arg |-> v,
                ret |-> value_eq_field(Access, Offset, Size, v, register_)]
    /\ UNCHANGED <<Access, Offset, Size, kind, f_state, register_, word0, pre,
                   sets, last>>
    /\ Frame({"field"})

\* field == other, other a field of the same type in another word
EqField ==
    /\ f_state = "ok"
    /\ "operator==" \in exposed(kind)
    /\ \E w \in CmpWords :
        cmp' = [op |-> "eq_field", arg |-> w,
                ret |-> field_eq_field(Access, Offset, Size, register_, w)]
    /\ UNCHANGED <<Access, Offset, Size, kind, f_state, register_, word0, pre,
                   sets, last>>
    /\ Frame({"field"})

\* field != other
NeField ==
    /\ f_state = "ok"
    /\ "operator!=" \in exposed(kind)
    /\ \E w \in CmpWords :
        cmp' = [op |-> "ne_field", arg |-> w,
                ret |-> field_ne_field(Access, Offset, Size, register_, w)]
    /\ UNCHANGED <<Access, Offset, Size, kind, f_state, register_, word0, pre,
                   sets, last>>
    /\ Frame({"field"})

\* the foreground calls set(value): the load of register_ |= ...
FgLoad ==
    /\ fg.pc = "idle"
    /\ \E value \in Vals :
          fg' = [pc |-> "loaded", value |-> value, tmp |-> register_]
    /\ UNCHANGED <<irq>>
    /\ Frame({"race"})

\* the store of register_ |= ...
FgStore ==
    /\ fg.pc = "loaded"
    /\ register_' = masked_set_store(Offset, Size, fg.tmp, fg.value)
    /\ pre' = register_
    /\ fg' = [fg EXCEPT !.pc = "done"]
    /\ UNCHANGED <<Access, Offset, Size, kind, f_state, word0, sets, last, cmp,
                   irq>>
    /\ Frame({"field", "race"})

\* the interrupt is taken: its handler calls set(value) on its field and
\* returns before the foreground goes on
HandlerSet ==
    /\ irq.state = "pending"
    /\ \E value \in Vals :
          /\ register_' = masked_set(irq.Offset, irq.Size, register_, value)
          /\ irq' = [irq EXCEPT !.state = "done", !.value = value, !.at = fg.pc]
    /\ pre' = register_
    /\ UNCHANGED <<Access, Offset, Size, kind, f_state, word0, sets, last, cmp,
                   fg>>
    /\ Frame({"field", "race"})

\* nvic::enable_irq, disable_irq, set_pending, clear_pending
NvicStore ==
    /\ nv_sets < MaxNvicSets
    /\ \E op \in DOMAIN nvic_store_member : \E irqn \in NvicIrqns :
          LET member == nvic_store_member[op]
              r == nvic_store(nvic, member, irqn_index(irqn))
          IN  /\ nvic' = r.mem
              /\ nv_last' = [op |-> op, irqn |-> irqn, member |-> member,
                             touched |-> r.touched,
                             offset |-> {nvic_offsetof[member]
                                           + n * sizeof_raw_register :
                                           n \in r.touched},
                             delta |-> nvic_delta(nvic, r.mem),
                             ret |-> FALSE]
    /\ nv_sets' = nv_sets + 1
    /\ Frame({"nvic"})

\* nvic::irq_enabled, is_pending, is_active
NvicQuery ==
    /\ \E op \in DOMAIN nvic_query_member : \E irqn \in NvicIrqns :
          LET member == nvic_query_member[op]
              r == nvic_query(nvic, member, irqn_index(irqn))
          IN  nv_last' = [op |-> op, irqn |-> irqn, member |-> member,
                          touched |-> r.touched,
                          offset |-> {nvic_offsetof[member]
                                        + n * sizeof_raw_register :
                                        n \in r.touched},
                          delta |-> {},
                          ret |-> r.ret]
    /\ UNCHANGED <<nvic, nv_sets>>
    /\ Frame({"nvic"})

\* systick::enable, disable, handler_enable, handler_disable
SystickSwitch ==
    /\ \E op \in {"enable", "disable", "handler_enable", "handler_disable"} :
          LET value == IF op \in {"enable", "handler_enable"}
                       THEN Bits(1) ELSE Bits(0)
          IN  /\ control_status_' =
                    IF op \in {"enable", "disable"}
                    THEN systick_set_enable(control_status_, value)
                    ELSE systick_set_handler_enable(control_status_, value)
              /\ st_last' = [op |-> op, arg |-> value, ret |-> Bits(0)]
    /\ Frame({"systick"})

\* systick::set_source(value)
SystickSetSource ==
    /\ \E value \in {external_clock, core_clock} :
          /\ control_status_' = systick_set_source(control_status_, value)
          /\ st_last' = [op |-> "set_source", arg |-> value, ret |-> Bits(0)]
    /\ Frame({"systick"})

\* systick::enabled, handler_enabled, source, count_flag
SystickRead ==
    /\ \E op \in {"enabled", "handler_enabled", "source", "count_flag"} :
          st_last' =
             [op |-> op, arg |-> Bits(0),
              ret |-> IF op = "enabled" THEN systick_enabled(control_status_)
                      ELSE IF op = "handler_enabled"
                      THEN systick_handler_enabled(control_status_)
                      ELSE IF op = "source" THEN systick_source(control_status_)
                      ELSE systick_count_flag(control_status_)]
    /\ UNCHANGED <<control_status_>>
    /\ Frame({"systick"})

\* the device receives a character: it is in the data register and
\* rx_buffer_full is set
UartReceive ==
    /\ ~uart_rx_buffer_full(u_state)
    /\ \E c \in UartChars : u_data' = c
    /\ u_state' = u_state \cup {1}
    /\ UNCHANGED <<u_call>>
    /\ Frame({"uart"})

\* the device's transmit buffer fills or drains
UartTransmit ==
    /\ u_state' = IF 0 \in u_state THEN u_state \ {0} ELSE u_state \cup {0}
    /\ UNCHANGED <<u_data, u_call>>
    /\ Frame({"uart"})

\* uart::get() or uart::put(c) is called
UartCall ==
    /\ u_call.pc \in {"idle", "returned"}
    /\ \/ u_call' = [NoUartCall EXCEPT !.op = "get", !.pc = "wait"]
       \/ \E c \in UartChars :
             u_call' = [NoUartCall EXCEPT !.op = "put", !.pc = "wait", !.arg = c]
    /\ UNCHANGED <<u_data, u_state>>
    /\ Frame({"uart"})

\* the while loop of get or put tests its condition once
UartPoll ==
    /\ u_call.pc = "wait"
    /\ LET waiting == IF u_call.op = "get" THEN uart_get_waiting(u_state)
                       ELSE uart_put_waiting(u_state)
       IN  u_call' = IF waiting THEN [u_call EXCEPT !.spun = TRUE]
                     ELSE [u_call EXCEPT !.pc = "pass"]
    /\ UNCHANGED <<u_data, u_state>>
    /\ Frame({"uart"})

\* get: return static_cast<char>(data_.get())
UartGetReturn ==
    /\ u_call.op = "get" /\ u_call.pc = "pass"
    /\ u_call' = [u_call EXCEPT !.pc = "returned",
                                !.ret = uart_data_get(u_data),
                                !.rx = uart_rx_buffer_full(u_state)]
    /\ UNCHANGED <<u_data, u_state>>
    /\ Frame({"uart"})

\* put: data_ = static_cast<raw_register>(c)
UartPutStore ==
    /\ u_call.op = "put" /\ u_call.pc = "pass"
    /\ u_data' = uart_data_set(u_data, u_call.arg)
    /\ u_call' = [u_call EXCEPT !.pc = "returned"]
    /\ UNCHANGED <<u_state>>
    /\ Frame({"uart"})

\* the device counts: while enable is set the value register changes
TimerCount ==
    /\ register_data_get("field", 0, 1, ctrl_) = Bits(1)
    /\ \E v \in TimerWords : v # value_ /\ value_' = v
    /\ UNCHANGED <<ctrl_, reload_, interrupt_, t_call>>
    /\ Frame({"timer"})

\* the device raises its interrupt: while enable and interrupt_enable are
\* set the flag of the interrupt register is set
TimerRaise ==
    /\ register_data_get("field", 0, 1, ctrl_) = Bits(1)
    /\ register_data_get("field", 3, 1, ctrl_) = Bits(1)
    /\ ~timer_get_interrupt(interrupt_)
    /\ interrupt_' = interrupt_ \cup {0}
    /\ UNCHANGED <<ctrl_, value_, reload_, t_call>>
    /\ Frame({"timer"})

\* timer_handle::delay(ticks) is called
DelayCall ==
    /\ t_call.pc \in {"idle", "returned"}
    /\ \E ticks \in TimerWords :
          t_call' = [NoDelay EXCEPT !.pc = "stop", !.ticks = ticks]
    /\ UNCHANGED <<ctrl_, value_, reload_, interrupt_>>
    /\ Frame({"timer"})

\* device_.stop(), before the start and after the loop
DelayStop ==
    /\ t_call.pc \in {"stop", "stop2"}
    /\ ctrl_' = timer_stop(ctrl_)
    /\ t_call' = [t_call EXCEPT !.pc = delay_next[t_call.pc]]
    /\ UNCHANGED <<value_, reload_, interrupt_>>
    /\ Frame({"timer"})

\* device_.reset(), before the start and as the last statement
DelayReset ==
    /\ t_call.pc \in {"reset", "reset2"}
    /\ value_' = timer_reset(value_)
    /\ t_call' = [t_call EXCEPT !.pc = delay_next[t_call.pc]]
    /\ UNCHANGED <<ctrl_, reload_, interrupt_>>
    /\ Frame({"timer"})

\* device_.enable_inrerrupt()
DelayEnableInterrupt ==
    /\ t_call.pc = "enable_inrerrupt"
    /\ ctrl_' = timer_enable_inrerrupt(ctrl_)
    /\ t_call' = [t_call EXCEPT !.pc = delay_next[t_call.pc]]
    /\ UNCHANGED <<value_, reload_, interrupt_>>
    /\ Frame({"timer"})

\* device_.set_reload(ticks)
DelaySetReload ==
    /\ t_call.pc = "set_reload"
    /\ reload_' = timer_set_reload(reload_, t_call.ticks)
    /\ t_call' = [t_call EXCEPT !.pc = delay_next[t_call.pc]]
    /\ UNCHANGED <<ctrl_, value_, interrupt_>>
    /\ Frame({"timer"})

\* device_.start()
DelayStart ==
    /\ t_call.pc = "start"
    /\ ctrl_' = timer_start(ctrl_)
    /\ t_call' = [t_call EXCEPT
                     !.pc = delay_next[t_call.pc],
                     !.at_start = [ctrl |-> ctrl_, value |-> value_,
                                   reload |-> reload_]]
    /\ UNCHANGED <<value_, reload_, interrupt_>>
    /\ Frame({"timer"})

\* while (!device_.get_interrupt()) tests its condition once
DelayPoll ==
    /\ t_call.pc = "wait"
    /\ t_call' = IF timer_get_interrupt(interrupt_)
                  THEN [t_call EXCEPT !.pc = "stop2", !.seen = TRUE]
                  ELSE t_call
    /\ UNCHANGED <<ctrl_, value_, reload_, interrupt_>>
    /\ Frame({"timer"})

\* device_.disable_iterrupt()
DelayDisableInterrupt ==
    /\ t_call.pc = "disable_iterrupt"
    /\ ctrl_' = timer_disable_iterrupt(ctrl_)
    /\ t_call' = [t_call EXCEPT !.pc = delay_next[t_call.pc]]
    /\ UNCHANGED <<value_, reload_, interrupt_>>
    /\ Frame({"timer"})

\* device_.clear_interrupt(): the store of interrupt_.reset = 1; the
\* register then reads as stored or, the device clearing the status on the
\* write, with the flag off
DelayClearInterrupt ==
    /\ t_call.pc = "clear_interrupt"
    /\ LET stored == timer_clear_interrupt(interrupt_)
       IN  /\ interrupt_' \in {stored, stored \ {0}}
           /\ t_call' = [t_call EXCEPT !.pc = delay_next[t_call.pc],
                                       !.cleared = 0 \in stored]
    /\ UNCHANGED <<ctrl_, value_, reload_>>
    /\ Frame({"timer"})

\* scb::irqn_to_index(irqn) is evaluated
IrqnToIndex ==
    /\ \E n \in IndexIrqns :
          x_last' = [op |-> "irqn_to_index", irqn |-> n,
                     index |-> irqn_to_index(n)]
    /\ Frame({"index"})

\* system_init(): the frequency is stored in the clock, the SysTick reload
\* value is set to ticks_per_millisecond() - 1, and the SysTick handler and
\* counter are enabled
SystemInit ==
    /\ \E f \in ClockFrequencies :
          /\ system_frequency_' = f
          /\ reload_value_' =
                systick_set_reload_value(reload_value_,
                    uint32_cast(ticks_per_millisecond(f) - 1))
    /\ control_status_' =
          systick_set_enable(
              systick_set_handler_enable(control_status_, Bits(1)), Bits(1))
    /\ c_last' = [op |-> "system_init", tick |-> tick_,
                  frequency |-> system_frequency_, ret |-> 0]
    /\ UNCHANGED <<tick_, c_ticks, st_last>>
    /\ Frame({"clock", "systick"})

\* system_tick(): clock::mutable_instance().increment_tick()
SystemTick ==
    /\ c_ticks < MaxTicks
    /\ tick_' = increment_tick(tick_)
    /\ c_ticks' = c_ticks + 1
    /\ c_last' = [op |-> "system_tick", tick |-> tick_,
                  frequency |-> system_frequency_, ret |-> 0]
    /\ UNCHANGED <<system_frequency_, reload_value_>>
    /\ Frame({"clock"})

\* system_tick() is called n times in a row: n is added modulo 2^32
SystemTicks ==
    /\ c_ticks < MaxTicks
    /\ \E n \in TickBursts : tick_' = uint32_minus(tick_, uint32_cast(-n))
    /\ c_ticks' = c_ticks + 1
    /\ c_last' = [op |-> "system_ticks", tick |-> tick_,
                  frequency |-> system_frequency_, ret |-> 0]
    /\ UNCHANGED <<system_frequency_, reload_value_>>
    /\ Frame({"clock"})

\* clock::tick, system_frequency, ticks_per_millisecond and now: tick and
\* now return the counter (as a number when it is below 2^31, else as the
\* two's complement reading of the word)
ClockRead ==
    /\ \E op \in {"tick", "system_frequency", "ticks_per_millisecond", "now"} :
          c_last' =
             [op |-> op, tick |-> tick_, frequency |-> system_frequency_,
              ret |-> IF op \in {"tick", "now"} THEN int32_cast(tick_)
                      ELSE IF op = "system_frequency" THEN system_frequency_
                      ELSE ticks_per_millisecond(system_frequency_)]
    /\ UNCHANGED <<tick_, system_frequency_, reload_value_, c_ticks>>
    /\ Frame({"clock"})

\* array[index] on a const array: register_field_array_base::get
ArrGet ==
    /\ \E index \in Indexes(arr) :
        LET r == array_get(arr, data_, index)
        IN  alast' = [op |-> "get", index |-> index, val |-> Bits(0),
                      ret |-> r.ret, touched |-> r.touched]
    /\ apre' = data_
    /\ UNCHANGED <<arr, data_, acc, nsets, beyond>>
    /\ Frame({"array"})

\* array[index] on a non-const array: an accessor is returned
ArrAccessor ==
    /\ \E index \in Indexes(arr) :
        LET a == get_accessor(arr, index)
        IN  /\ acc' = [live |-> TRUE, reg_ |-> a.reg_, offset_ |-> a.offset_,
                        index |-> index]
            /\ alast' = [op |-> "accessor", index |-> index, val |-> Bits(0),
                          ret |-> Bits(0), touched |-> {}]
    /\ apre' = data_
    /\ UNCHANGED <<arr, data_, nsets, beyond>>
    /\ Frame({"array"})

\* accessor.get() / conversion of the accessor to value_type
AccGet ==
    /\ acc.live
    /\ LET r == accessor_get(arr.FieldSize, acc, data_)
       IN  alast' = [op |-> "acc_get", index |-> acc.index, val |-> Bits(0),
                     ret |-> r.ret, touched |-> r.touched]
    /\ apre' = data_
    /\ UNCHANGED <<arr, data_, acc, nsets, beyond>>
    /\ Frame({"array"})

\* accessor.set(val) / accessor = val
AccSet ==
    /\ acc.live
    /\ nsets < MaxArrSets
    /\ \E val \in ArrVals :
        LET r == accessor_set(arr.FieldSize, acc, data_, val)
        IN  /\ data_' = r.data
            /\ beyond' = r.beyond
            /\ alast' = [op |-> "acc_set", index |-> acc.index, val |-> val,
                          ret |-> Bits(0), touched |-> r.touched]
    /\ apre' = data_
    /\ nsets' = nsets + 1
    /\ UNCHANGED <<arr, acc>>
    /\ Frame({"array"})

\* ------------------------------------------------------------------------
\* Specifications

\* the bit-mask utility over its template arguments
InitBitMask ==
    /\ IdleBut({"mask"})
    /\ MaskInit

NextBitMask == Instantiate

SpecBitMask == InitBitMask /\ [][NextBitMask]_vars

\* one masked-word field
InitMasked ==
    /\ IdleBut({"field"})
    /\ FieldInit("bitwise_logic")

NextMasked == Set \/ Get

SpecMasked == InitMasked /\ [][NextMasked]_vars

\* one direct bit-field field
InitField ==
    /\ IdleBut({"field"})
    /\ FieldInit("field")

NextField == Set \/ Get

SpecField == InitField /\ [][NextField]_vars

\* one register field array and its accessors
InitArray ==
    /\ IdleBut({"array"})
    /\ ArrInit

NextArray == ArrGet \/ ArrAccessor \/ AccGet \/ AccSet

SpecArray == InitArray /\ [][NextArray]_vars

\* the comparison operators of one readable field
InitCompare ==
    /\ IdleBut({"field"})
    /\ Access \in {"field", "bitwise_logic"}
    /\ kind \in {"read_write", "read_only"}
    /\ f_state = "ok"
    /\ \E f \in FieldSpecs :
        /\ register_field_ok(f[1], f[2])
        /\ Offset = f[1]
        /\ Size = f[2]
    /\ register_ \in CmpWords
    /\ word0 = register_
    /\ pre = register_
    /\ sets = <<>>
    /\ last = NoCall
    /\ cmp = NoCmp

SpecCompare ==
    InitCompare /\ [][EqValue \/ NeValue \/ ValueEq \/ EqField
               \/ NeField]_vars

\* the operations each wrapper lets a caller reach on one field
InitAccess ==
    /\ IdleBut({"field"})
    /\ Access \in {"field", "bitwise_logic"}
    /\ kind \in {"read_write", "read_only", "write_only"}
    /\ f_state = "ok"
    /\ Offset = 5
    /\ Size = 3
    /\ register_ = AltBits
    /\ word0 = register_
    /\ pre = register_
    /\ sets = <<>>
    /\ last = NoCall
    /\ cmp = NoCmp

SpecAccess ==
    InitAccess /\ [][Set \/ Assign \/ Get \/ Convert \/ EqValue
               \/ EqField]_vars

\* field definitions of any offset and width, and the calls on those accepted
InitDeclare ==
    /\ IdleBut({"field"})
    /\ Access \in {"field", "bitwise_logic"}
    /\ kind = "read_write"
    /\ f_state = "declared"
    /\ Offset \in DeclOffsets
    /\ Size \in DeclSizes
    /\ register_ = Bits(0)
    /\ word0 = register_
    /\ pre = register_
    /\ sets = <<>>
    /\ last = NoCall
    /\ cmp = NoCmp

SpecDeclare ==
    InitDeclare /\ [][DefineField \/ Set \/ Get]_vars

\* a foreground set and an interrupt handler's set on the same word
InitRace ==
    /\ IdleBut({"field", "race"})
    /\ Access = "bitwise_logic"
    /\ kind = "read_write"
    /\ f_state = "ok"
    /\ \E f \in RaceFields : Offset = f[1] /\ Size = f[2]
    /\ register_ \in InitWords
    /\ word0 = register_
    /\ pre = register_
    /\ sets = <<>>
    /\ last = NoCall
    /\ cmp = NoCmp
    /\ fg = [pc |-> "idle", value |-> Bits(0), tmp |-> Bits(0)]
    /\ \E f \in RaceFields :
          irq = [state |-> "pending", Offset |-> f[1], Size |-> f[2],
                 value |-> Bits(0), at |-> "idle"]

SpecRace ==
    InitRace /\ [][FgLoad \/ FgStore \/ HandlerSet]_vars

\* the NVIC device
InitNvic ==
    /\ IdleBut({})

SpecNvic ==
    InitNvic /\ [][NvicStore \/ NvicQuery]_vars

\* the SysTick device
InitSystick ==
    /\ IdleBut({"systick"})
    /\ control_status_ \in SystickWords
    /\ st_last = NoCall

SpecSystick ==
    InitSystick /\ [][SystickSwitch \/ SystickSetSource \/ SystickRead]_vars

\* a UART device and the calls of get and put on it
InitUart ==
    /\ IdleBut({"uart"})
    /\ u_data \in UartChars
    /\ u_state \in SUBSET {0, 1}
    /\ u_call = NoUartCall

SpecUart ==
    InitUart /\ [][UartReceive \/ UartTransmit \/ UartCall
               \/ UartPoll \/ UartGetReturn \/ UartPutStore]_vars

\* one register field array of any layout the requires-clause accepts
InitLayout ==
    /\ IdleBut({"array"})
    /\ arr \in {a \in LayoutSpecs : register_field_array_ok(a)}
    /\ \E w \in InitWords : data_ = [n \in 0 .. (arr.RegisterCount - 1) |-> w]
    /\ acc = NoAccessor
    /\ apre = data_
    /\ alast = NoArrCall
    /\ nsets = 0
    /\ beyond \in InitWords

SpecLayout ==
    InitLayout /\ [][ArrGet \/ ArrAccessor \/ AccGet \/ AccSet]_vars

\* one timer device and the callers of timer_handle::delay
InitTimer ==
    /\ IdleBut({"timer"})
    /\ ctrl_ \in SUBSET {0, 1, 3}
    /\ value_ \in TimerWords
    /\ reload_ \in TimerWords
    /\ interrupt_ \in SUBSET {0}
    /\ t_call = NoDelay

\* the statements of a call of delay
DelayStep ==
    DelayStop \/ DelayReset \/ DelayEnableInterrupt \/ DelaySetReload
        \/ DelayStart \/ DelayPoll \/ DelayDisableInterrupt
        \/ DelayClearInterrupt

SpecTimer ==
    InitTimer /\ [][TimerCount \/ TimerRaise \/ DelayCall \/ DelayStep]_vars

\* the caller of delay keeps running; nothing is assumed of the device
SpecTimerLive == SpecTimer /\ WF_vars(DelayStep)

\* the calls of scb::irqn_to_index
InitIndex ==
    /\ IdleBut({})

SpecIndex ==
    InitIndex /\ [][IrqnToIndex]_vars

\* the system clock from the construction of its static instance
InitClock ==
    /\ IdleBut({})

SpecClock ==
    InitClock /\ [][SystemInit \/ SystemTick \/ SystemTicks \/ ClockRead]_vars

\* ------------------------------------------------------------------------
\* Properties

\* the bits of the field <<O, S>> inside a word, and a value's being in the
\* field's range [0, 2^S - 1]
FieldBits(O, S) == {b \in BitPos : O <= b /\ b < O + S}

InRange(v, S) == \A b \in v : b < S

AfterSet == last.op = "set"

AfterGet == last.op = "get"

\* C1: a masked-word set or-accumulates: after set(v) the word is the old
\* word with, inside the field, the bits of v added; no set clears a bit; and
\* from a zeroed word set(v1); set(v2); get() returns v1 | v2 for v1, v2 in
\* the field's range.
C1_SetAccumulates ==
    /\ AfterSet =>
          register_ = {b \in BitPos :
                          \/ b \in pre
                          \/ b \in FieldBits(Offset, Size) /\ (b - Offset) \in last.arg}
    /\ pre \subseteq register_
    /\ word0 \subseteq register_
    /\ (/\ word0 = Bits(0) /\ Len(sets) = 2 /\ AfterGet
        /\ InRange(sets[1], Size) /\ InRange(sets[2], Size)) =>
          last.ret = sets[1] \cup sets[2]

C1_Witness ==
    /\ Access = "bitwise_logic" /\ Offset = 5 /\ Size = 3
    /\ word0 = Bits(0)
    /\ sets = <<Bits(5), Bits(2)>>
    /\ AfterGet /\ last.ret = Bits(7)

\* C2 as stated: for the masked 3-bit field at offset 5 of a zeroed word,
\* set(0b101) leaves the word 0x00000A00 and a second set(0b010) leaves
\* 0x00000E00, not 0x00000400.
C2_AsStated ==
    (Offset = 5 /\ Size = 3 /\ word0 = Bits(0)) =>
        /\ sets = <<Bits(5)>> => register_ = Bits(2560)
        /\ sets = <<Bits(5), Bits(2)>> =>
              register_ = Bits(3584) /\ register_ # Bits(1024)

\* C2: for the masked 3-bit field at offset 5 of a zeroed word, set(0b101)
\* leaves the word 0x000000A0 (0b101 << 5) and a second set(0b010) leaves
\* 0x000000E0, the or of both values, not 0x00000040 (0b010 << 5).
C2_Scenario ==
    (Offset = 5 /\ Size = 3 /\ word0 = Bits(0)) =>
        /\ sets = <<Bits(5)>> => register_ = Bits(160)
        /\ sets = <<Bits(5), Bits(2)>> =>
              register_ = Bits(224) /\ register_ # Bits(64)

C2_Witness ==
    /\ Access = "bitwise_logic" /\ Offset = 5 /\ Size = 3 /\ word0 = Bits(0)
    /\ sets = <<Bits(5), Bits(2)>>
    /\ AfterSet
    /\ pre = Bits(160)
    /\ register_ = Bits(224)

\* C3: a masked-word get returns the field's own bits moved down to bit 0: a
\* value in [0, 2^Size - 1] that no bit outside the field influences, and the
\* word is the same after the get as before.
C3_GetExtracts ==
    AfterGet =>
        /\ last.ret = {b - Offset : b \in pre \cap FieldBits(Offset, Size)}
        /\ InRange(last.ret, Size)
        /\ \A other \in InitWords \cup Vals :
              LET w == (pre \cap FieldBits(Offset, Size))
                          \cup (other \ FieldBits(Offset, Size))
              IN  register_data_get(Access, Offset, Size, w) = last.ret
        /\ register_ = pre

C3_Witness ==
    /\ Access = "bitwise_logic" /\ Offset = 5 /\ Size = 3
    /\ word0 = AltBits
    /\ sets = <<Bits(2)>>
    /\ AfterGet /\ last.ret = Bits(7)
    /\ register_ = AltBits \cup {6}

\* C4: masked-word round trip: from a zeroed word, set(v) with v in the
\* field's range followed by get() returns v; for the fields modelled along
\* the calls made, and for every <<Offset, Size>> with Offset + Size <= 32
\* by evaluating set and get on a zeroed word.
C4_RoundTrip ==
    /\ (/\ word0 = Bits(0) /\ Len(sets) = 1 /\ AfterGet
        /\ InRange(sets[1], Size)) =>
          last.ret = sets[1]
    /\ (word0 = Bits(0) /\ last = NoCall) =>
          \A O \in BitPos : \A S \in 1 .. register_bits :
             register_field_ok(O, S) =>
                \A v \in Vals :
                   InRange(v, S) =>
                      register_data_get(Access, O, S,
                          register_data_set(Access, O, S, Bits(0), v)) = v

C4_Witness ==
    /\ Access = "bitwise_logic" /\ Offset = 16 /\ Size = 16
    /\ word0 = Bits(0)
    /\ sets = <<Bits(6)>>
    /\ AfterGet /\ last.ret = Bits(6)

\* C5: direct bit-field round trip and frame: from any word contents, set(v)
\* with v in range followed by get() returns v, set changes no bit outside
\* the field, and the one-bit field at offset 3 of a zeroed word set to true
\* leaves the word 00001000 with the sibling one-bit field at offset 1
\* reading 0.
C5_FieldRoundTrip ==
    /\ (AfterGet /\ sets # <<>> /\ InRange(sets[Len(sets)], Size)) =>
          last.ret = sets[Len(sets)]
    /\ AfterSet =>
          register_ \ FieldBits(Offset, Size) = pre \ FieldBits(Offset, Size)
    /\ (Offset = 3 /\ Size = 1 /\ word0 = Bits(0) /\ sets = <<Bits(1)>>) =>
          /\ register_ = Bits(8)
          /\ register_data_get(Access, 1, 1, register_) = Bits(0)

C5_Witness ==
    /\ Access = "field" /\ Offset = 7 /\ Size = 22
    /\ word0 = AllOnes
    /\ sets = <<Bits(5), Bits(2)>>
    /\ AfterGet /\ last.ret = Bits(2)
    /\ register_ = (AllOnes \ FieldBits(7, 22)) \cup {8}

\* C6: a masked-word set changes no bit outside the field's own mask, for
\* every value passed (also one with bits at or above 2^Size), so a sibling
\* masked field over disjoint bits of the same word reads the same before
\* and after.
C6_SetFrame ==
    AfterSet =>
        /\ register_ \ FieldBits(Offset, Size) = pre \ FieldBits(Offset, Size)
        /\ \A f \in FieldSpecs :
              FieldBits(f[1], f[2]) \cap FieldBits(Offset, Size) = {} =>
                  register_data_get(Access, f[1], f[2], register_)
                      = register_data_get(Access, f[1], f[2], pre)

C6_Witness ==
    /\ Access = "bitwise_logic" /\ Offset = 2 /\ Size = 1
    /\ word0 = Bits(0)
    /\ sets = <<AllOnes>> /\ AfterSet
    /\ register_ = Bits(4)

\* C7: for every instantiable bit_mask<Offset, Length> (Length >= 1 and
\* Offset + Length <= 32) the value has exactly Length one-bits, all at
\* positions in [Offset, Offset + Length), and is bit_sequence(Length) moved
\* up by Offset, where bit_sequence(Length) is the bits 0 .. Length - 1;
\* bit_sequence(3) = 0b111 and bit_mask(3, 5) = 0b11111000.
C7_BitMask ==
    /\ m_state = "ok" =>
          /\ Cardinality(m_value) = m_Length
          /\ m_value = {b \in BitPos : m_Offset <= b /\ b < m_Offset + m_Length}
          /\ bit_sequence(m_Length) = 0 .. (m_Length - 1)
          /\ m_value = {b + m_Offset : b \in bit_sequence(m_Length)}
    /\ m_state = "ill_formed" =>
          m_Length = 0 \/ m_Offset + m_Length > register_bits
    /\ (m_state = "ok" /\ m_Offset = 0 /\ m_Length = 3) => m_value = Bits(7)
    /\ (m_state = "ok" /\ m_Offset = 3 /\ m_Length = 5) => m_value = Bits(248)

C7_Witness ==
    /\ m_state = "ok" /\ m_Offset = 3 /\ m_Length = 5
    /\ m_value = Bits(248)

\* the number of the element's first bit, and the word and in-word bit that
\* hold it: the only w, off with w * 32 + off = bit number and 0 <= off < 32
ElemBit(a, i) == i * a.FieldStorageSize + a.InitialOffset

ElemWord(a, i) ==
    CHOOSE w \in 0 .. ElemBit(a, i) :
        \E off \in BitPos : w * register_bits + off = ElemBit(a, i)

\* the bits of word `word` at the in-word positions off .. off + FieldSize - 1
ElemValue(a, word, off) == {k \in 0 .. (a.FieldSize - 1) : (off + k) \in word}

\* C8: a read of a field array with index >= FieldCount (FieldCount itself,
\* FieldCount + 1, a very large index) returns the zero value and reads no
\* backing word.
C8_GetOutOfRange ==
    (alast.op = "get" /\ alast.index >= arr.FieldCount) =>
        /\ alast.ret = Bits(0)
        /\ alast.touched = {}
        /\ data_ = apre

C8_Witness ==
    /\ arr = ArrayOf(8, 240, 60, 8, 0)
    /\ data_[59] = AllOnes
    /\ alast.op = "get" /\ alast.index = 240
    /\ alast.ret = Bits(0)

\* C9: the accessor returned for an index >= FieldCount is inert: it holds
\* the null pointer, its get returns zero and touches no word, and an
\* assignment through it leaves every backing word, and so the last valid
\* element, as it was.
C9_AccessorOutOfRange ==
    /\ (acc.live /\ acc.index >= arr.FieldCount) => acc.reg_ = nullptr
    /\ (alast.op = "acc_get" /\ alast.index >= arr.FieldCount) =>
          alast.ret = Bits(0) /\ alast.touched = {} /\ data_ = apre
    /\ (alast.op = "acc_set" /\ alast.index >= arr.FieldCount) =>
          /\ alast.touched = {}
          /\ data_ = apre
          /\ array_get(arr, data_, arr.FieldCount - 1)
                = array_get(arr, apre, arr.FieldCount - 1)

C9_Witness ==
    /\ arr = ArrayOf(1, 240, 8, 1, 0)
    /\ alast.op = "acc_set" /\ alast.index = 240 /\ alast.val = AllOnes
    /\ \A n \in DOMAIN data_ : data_[n] = Bits(0)
    /\ array_get(arr, data_, 239).ret = Bits(0)

C11_MemorySafety ==
    /\ (acc.live /\ acc.index < arr.FieldCount) =>
          acc.reg_ \in 0 .. (arr.RegisterCount - 1)
    /\ alast.index < arr.FieldCount =>
          alast.touched \subseteq 0 .. (arr.RegisterCount - 1)

\* C12: the comparisons of a readable field are decided by its value:
\* field == v is true exactly when get() = v, field != v exactly when
\* get() # v (also with the value on the left), and fieldA == fieldB exactly
\* when both get() results are equal, fieldA != fieldB when they differ.
C12_Equality ==
    LET g == register_data_get(Access, Offset, Size, register_)
    IN  /\ cmp.op \in {"eq_value", "value_eq"} => (cmp.ret <=> (g = cmp.arg))
        /\ cmp.op = "ne_value" => (cmp.ret <=> (g # cmp.arg))
        /\ cmp.op = "eq_field" =>
              (cmp.ret <=> (g = register_data_get(Access, Offset, Size, cmp.arg)))
        /\ cmp.op = "ne_field" =>
              (cmp.ret <=> (g # register_data_get(Access, Offset, Size, cmp.arg)))

\* C13: the wrapper fixes the operations a caller reaches: a read-only
\* field exposes get, comparison and conversion but neither set nor
\* assignment, so its storage word never changes by any call; a write-only
\* field exposes set and assignment only, so no call on it returns or compares
\* its contents; a read-write field exposes all of them.
C13_AccessGate ==
    /\ kind = "read_only" =>
          /\ exposed(kind) \cap {"set", "operator="} = {}
          /\ {"get", "operator==", "operator value_type"} \subseteq exposed(kind)
          /\ register_ = word0
          /\ sets = <<>>
          /\ last.op \in {"none", "get", "convert"}
    /\ kind = "write_only" =>
          /\ exposed(kind) = {"set", "operator="}
          /\ last.op \in {"none", "set", "assign"}
          /\ cmp.op = "none"
    /\ kind = "read_write" =>
          {"get", "set", "operator=", "operator==", "operator value_type"}
              \subseteq exposed(kind)

\* a read-only field has been read, converted and compared, and its word is
\* as it was
C13_Witness ==
    /\ kind = "read_only"
    /\ last.op = "convert" /\ last.ret = Bits(5)
    /\ cmp.op = "eq_field"
    /\ register_ = AltBits

\* C14: a field definition is accepted only if Offset + Size <= 32: with
\* Offset + Size > 32 the definition is rejected, no mask exists for it and no
\* call is ever made on it; every field a call is made on was accepted and
\* has Offset + Size <= 32 (and Size >= 1); and a call on such a field always
\* completes, a get with a value inside the field's range.
C14_FieldAccepted ==
    /\ f_state = "ok" => Offset + Size <= register_bits /\ Size >= 1
    /\ Offset + Size > register_bits =>
          /\ f_state \in {"declared", "ill_formed"}
          /\ <<Offset, Size>> \notin DOMAIN bit_mask_v
          /\ last = NoCall
          /\ register_ = word0
    /\ last # NoCall =>
          /\ f_state = "ok"
          /\ Offset + Size <= register_bits
          /\ Access = "bitwise_logic" => <<Offset, Size>> \in DOMAIN bit_mask_v
          /\ last.op \in {"set", "get"}
          /\ last.op = "get" => InRange(last.ret, Size)
    /\ f_state = "declared" =>
          \A A \in {"field", "bitwise_logic"} :
             \A O \in 0 .. MaxParam : \A S \in 0 .. MaxParam :
                (field_requires(O, S) /\ register_data_ok(A, O, S))
                    <=> register_field_ok(O, S)

\* the bit-field definition with Offset 5 and Size 28, which only the
\* requires-clause of register_field_base can reject, was rejected
C14_Witness ==
    /\ Access = "field" /\ Offset = 5 /\ Size = 28
    /\ f_state = "ill_formed"
    /\ last = NoCall

\* the bits of the word that set(v) on the field <<O, S>> turns on
SetBits(O, S, v) == {b \in FieldBits(O, S) : (b - O) \in v}

\* C15: a masked-word set is a load, an or and a store of the whole word. If
\* the handler's set runs between the foreground's load and store, the word
\* after the foreground's store is the word loaded before with the
\* foreground's bits added: every bit that only the handler turned on is
\* absent although its set completed. If the handler runs before the load or
\* after the store, its bits are there.
C15_LostUpdate ==
    LET fbits == SetBits(Offset, Size, fg.value)
        hbits == SetBits(irq.Offset, irq.Size, irq.value)
    IN  /\ (fg.pc = "done" /\ irq.state = "done" /\ irq.at = "loaded") =>
              /\ register_ = fg.tmp \cup fbits
              /\ register_ \cap (hbits \ (fg.tmp \cup fbits)) = {}
        /\ (irq.state = "done" /\ irq.at # "loaded") => hbits \subseteq register_
        /\ (irq.state = "done" /\ fg.pc # "done") => hbits \subseteq register_

\* the handler set bit 16 between the foreground's load of the zeroed word
\* and its store of bit 2: bit 16 is not in the word
C15_Witness ==
    /\ word0 = Bits(0) /\ Offset = 2 /\ Size = 1
    /\ fg = [pc |-> "done", value |-> Bits(1), tmp |-> Bits(0)]
    /\ irq = [state |-> "done", Offset |-> 16, Size |-> 1, value |-> Bits(1),
              at |-> "loaded"]
    /\ register_ = Bits(4)
    /\ 16 \notin register_

\* C16: the members of nvic_registers, laid out in declaration order, take
\* 8+24+8+24+8+24+8+24+8+56+60+644+1 words; the size of the device is
\* 0xe000ef04 - 0xe000e100 bytes, the offset of each of iser_, icer_, ispr_,
\* icpr_, iabr_, ip_, stir_ is its documented address (0xe000e100,
\* 0xe000e180, 0xe000e200, 0xe000e280, 0xe000e300, 0xe000e400, 0xe000ef00)
\* minus the base address, and a word a call accesses lies at the documented
\* address of its register plus four times the word's number.
C16_NvicLayout ==
    /\ [k \in DOMAIN nvic_registers |-> nvic_registers[k].words]
          = <<8, 24, 8, 24, 8, 24, 8, 24, 8, 56, 60, 644, 1>>
    /\ nvic_sizeof = 4 * (8+24+8+24+8+24+8+24+8+56+60+644+1)
    /\ nvic_sizeof = address_minus(nvic_end_address, nvic_base_address)
    /\ \A m \in DOMAIN nvic_bases :
          nvic_offsetof[m] = address_minus(nvic_bases[m], nvic_base_address)
    /\ nvic_offsetof.iser_ = 0 /\ nvic_offsetof.icer_ = 128
    /\ nvic_offsetof.ispr_ = 256 /\ nvic_offsetof.icpr_ = 384
    /\ nvic_offsetof.iabr_ = 512 /\ nvic_offsetof.ip_ = 768
    /\ nvic_offsetof.stir_ = 3584
    /\ \A o \in nv_last.offset :
          \E n \in 0 .. (interrupt_reg_count - 1) :
             /\ n \in nv_last.touched
             /\ o = address_minus(nvic_bases[nv_last.member], nvic_base_address)
                       + 4 * n
             /\ o + 4 <= nvic_sizeof

\* is_active(239) read word 7 of iabr_, the word at 0xe000e31c
C16_Witness ==
    /\ nv_last.op = "is_active" /\ nv_last.irqn = 239
    /\ nv_last.touched = {7}
    /\ nv_last.offset = {540}
    /\ nv_sets = MaxNvicSets

\* C17: right after systick::set_source(value), source() returns value, for
\* either clock source and whatever the control and status register held
\* before (set_source(external_clock) after set_source(core_clock)
\* included).
C17_SetSource ==
    st_last.op = "set_source" => systick_source(control_status_) = st_last.arg

\* C18: uart::get() returns only when the receive buffer holds data: it
\* leaves its loop only when rx_buffer_full is set, and the value it returns
\* was read from the data register while rx_buffer_full was set.
C18_GetWaitsForRx ==
    /\ (u_call.op = "get" /\ u_call.pc = "returned") => u_call.rx
    /\ (u_call.op = "get" /\ u_call.pc = "wait" /\ ~uart_rx_buffer_full(u_state))
          => uart_get_waiting(u_state)


\* the statements of delay after device_.start(), and those after the loop
DelayStarted ==
    t_call.pc \in {"wait", "stop2", "disable_iterrupt", "clear_interrupt",
                   "reset2", "returned"}

DelayPastLoop ==
    t_call.pc \in {"stop2", "disable_iterrupt", "clear_interrupt", "reset2",
                   "returned"}

\* C19: timer_handle::delay(ticks) starts the timer only after it has been
\* stopped, its value reset to 0, its interrupt enabled and its reload
\* register set to ticks; it leaves its loop only after reading the
\* interrupt flag set after that start; on return enable and
\* interrupt_enable are 0, the interrupt-clear bit has been written and the
\* value register is 0; and once the interrupt flag is raised during the
\* loop, delay returns.
C19_Delay ==
    /\ [](DelayStarted =>
            /\ register_data_get("field", 0, 1, t_call.at_start.ctrl) = Bits(0)
            /\ register_data_get("field", 3, 1, t_call.at_start.ctrl) = Bits(1)
            /\ t_call.at_start.value = Bits(0)
            /\ t_call.at_start.reload = t_call.ticks)
    /\ [](DelayPastLoop => t_call.seen)
    /\ [](t_call.pc = "returned" =>
            /\ register_data_get("field", 0, 1, ctrl_) = Bits(0)
            /\ register_data_get("field", 3, 1, ctrl_) = Bits(0)
            /\ t_call.cleared
            /\ value_ = Bits(0))
    /\ ((t_call.pc = "wait" /\ 0 \in interrupt_) ~> (t_call.pc = "returned"))

\* a delay(2) has returned on a device that was running with the external
\* enable set, and left ext_enable as it was
C19_Witness ==
    /\ t_call.pc = "returned"
    /\ t_call.ticks = Bits(2)
    /\ t_call.at_start.ctrl = {1, 3}
    /\ t_call.seen
    /\ ctrl_ = {1}


\* the configurable system exceptions and the system handler each one has
ConfigurableHandlers ==
    { <<cm3_irqn.memory_management, system_handler_index_t.mem_manage_fault>>,
      <<cm3_irqn.bus_fault, system_handler_index_t.bus_fault>>,
      <<cm3_irqn.usage_fault, system_handler_index_t.usage_fault>>,
      <<cm3_irqn.svcall, system_handler_index_t.sv_call>>,
      <<cm3_irqn.debug_monitor, system_handler_index_t.debug_monitor>>,
      <<cm3_irqn.pensv, system_handler_index_t.pend_sv>>,
      <<cm3_irqn.systick, system_handler_index_t.sys_tick>> }

\* C20: irqn_to_index maps each configurable system exception number
\* (-12, -11, -10, -5, -4, -2, -1) to its system_handler_index_t value
\* (0, 1, 2, 7, 8, 10, 11), an index below the 12 elements of the system
\* handler priority array.
C20_IrqnToIndex ==
    \A h \in ConfigurableHandlers :
        (x_last.op = "irqn_to_index" /\ x_last.irqn = h[1]) =>
            /\ x_last.index = h[2]
            /\ 0 <= x_last.index /\ x_last.index < system_handler_count

\* irqn_to_index(irqn::svcall) has been evaluated and gave sv_call
C20_Witness ==
    /\ x_last.op = "irqn_to_index"
    /\ x_last.irqn = cm3_irqn.svcall
    /\ x_last.index = system_handler_index_t.sv_call


\* C21: the system clock's tick starts at 0 and only system_tick() changes
\* it: a call adds exactly 1 modulo 2^32 and keeps system_frequency;
\* system_init and the accessors tick, system_frequency,
\* ticks_per_millisecond and now leave the tick as it was, and the accessors
\* leave the frequency as it was too.
C21_TickOnlyBySystemTick ==
    /\ c_ticks = 0 => tick_ = Bits(0)
    /\ c_last.op = "system_tick" =>
          /\ system_frequency_ = c_last.frequency
          /\ IF c_last.tick = AllOnes THEN tick_ = Bits(0)
             ELSE IF c_last.tick = BitPos \ {register_bits - 1}
             THEN tick_ = {register_bits - 1}
             ELSE int32_cast(tick_) = int32_cast(c_last.tick) + 1
    /\ c_last.op \notin {"system_tick", "system_ticks"} =>
          tick_ = c_last.tick
    /\ c_last.op \in {"tick", "system_frequency", "ticks_per_millisecond",
                      "now"} =>
          system_frequency_ = c_last.frequency

\* system_tick() has been called with the counter at 2^32 - 1 and the
\* counter is 0 again
C21_Witness ==
    /\ c_last.op = "system_tick"
    /\ c_last.tick = AllOnes
    /\ tick_ = Bits(0)
    /\ system_frequency_ = 54000000


\* C22: an assignment of v through the accessor of an index i below
\* FieldCount changes element i only: the word of the element becomes
\* word | ((v & bit_sequence(FieldSize)) << in-word offset), every other
\* word and every other element keeps its value, and get(i) afterwards is
\* old get(i) | (v & mask).
C22_AccessorSetFrame ==
    (alast.op = "acc_set" /\ alast.index < arr.FieldCount) =>
        LET i == alast.index
            w == ElemWord(arr, i)
            off == ElemBit(arr, i) - w * register_bits
            v == BitAnd(alast.val, bit_sequence(arr.FieldSize))
        IN  /\ data_[w] = BitOr(apre[w], Shl(v, off))
            /\ \A n \in DOMAIN data_ \ {w} : data_[n] = apre[n]
            /\ \A j \in (0 .. (arr.FieldCount - 1)) \ {i} :
                  array_get(arr, data_, j).ret = array_get(arr, apre, j).ret
            /\ array_get(arr, data_, i).ret
                  = BitOr(array_get(arr, apre, i).ret, v)


\* C23: in every array the requires-clause accepts, no element of an index
\* below FieldCount straddles a word boundary: its in-word bit position plus
\* FieldSize is at most 32, so that get(i) returns all FieldSize bits of the
\* element, those that the backing words hold from bit
\* i * FieldStorageSize + InitialOffset on.
C23_NoStraddle ==
    /\ register_field_array_ok(arr) =>
          \A i \in 0 .. (arr.FieldCount - 1) :
             (ElemBit(arr, i) % register_bits) + arr.FieldSize <= register_bits
    /\ (alast.op = "get" /\ alast.index < arr.FieldCount) =>
          alast.ret =
             {k \in 0 .. (arr.FieldSize - 1) :
                 LET b == ElemBit(arr, alast.index) + k
                 IN  /\ (b \div register_bits) \in DOMAIN apre
                     /\ (b % register_bits) \in apre[b \div register_bits]}


\* C24: a call of nvic with an interrupt number outside 0 .. 239 (negative,
\* or 240 and more) is harmless: enable_irq, disable_irq, set_pending and
\* clear_pending change no word of the device and access none, and
\* irq_enabled, is_pending and is_active return false; enable_irq of an
\* interrupt number in 0 .. 239 sets bit irqn % 32 of word irqn / 32 of
\* iser_ and changes no other bit.
C24_OutOfRangeHarmless ==
    /\ (nv_last.op # "none"
          /\ (nv_last.irqn < 0 \/ nv_last.irqn >= interrupt_count)) =>
          /\ nv_last.delta = {}
          /\ nv_last.touched = {}
          /\ nv_last.ret = FALSE
    /\ (nv_last.op = "enable_irq"
          /\ nv_last.irqn \in 0 .. (interrupt_count - 1)) =>
          LET n == nv_last.irqn \div register_bits
              b == nv_last.irqn % register_bits
          IN  /\ b \in nvic.iser_[n]
              /\ nv_last.delta \subseteq {<<"iser_", n, b>>}
              /\ nv_last.touched = {n}

\* enable_irq(systick) after enable_irq(239): only bit 15 of word 7 of
\* iser_ is set
C24_Witness ==
    /\ nv_last.op = "enable_irq"
    /\ nv_last.irqn = -1
    /\ nv_last.delta = {}
    /\ nv_sets = 2
    /\ nvic.iser_ = [n \in 0 .. 7 |-> IF n = 7 THEN {15} ELSE Bits(0)]


\* ------------------------------------------------------------------------
\* The UART driver: its calls, the vector handlers and the devices' events

\* the program runs (assert(false) has not ended it) and the bound on the
\* calls is not reached
DriverRuns ==
    /\ h_calls < MaxUartCalls
    /\ ~(h_last.asserted /\ h_last.slot = 0)

\* system_init(frequency) at start-up, before any call of the driver
DriverSystemInit ==
    /\ h_calls = 0
    /\ system_frequency_ = 0
    /\ SystemInit

\* a device raises interrupts: tx (bit 0 of the interrupt register), rx
\* (bit 1, the character received is in the data register), both, or an
\* overrun (bits 2 and 3 of the interrupt register and of the state
\* register)
UartDeviceEvent ==
    /\ DriverRuns
    /\ \E a \in {uart0_address, uart1_address},
          B \in {{0}, {1}, {0, 1}, {2}, {3}} :
          /\ B \cap uarts[a].interrupt_ = {}
          /\ uarts' = [uarts EXCEPT
                 ![a].interrupt_ = @ \cup B,
                 ![a].data_ = IF 1 \in B THEN Bits(65) ELSE @,
                 ![a].state_ = @ \cup (B \cap {2, 3})]
    /\ h_calls' = h_calls + 1
    /\ UNCHANGED <<handlers, h_last, h_used>>
    /\ Frame({"driver"})

\* uart_handle::configure(init) -> device_.configure(init)
UartConfigure ==
    /\ DriverRuns
    /\ \E a \in {uart0_address, uart1_address}, init \in UartInits :
          LET trace == uart_configure(uarts[a], init, system_frequency_)
          IN  /\ uarts' = [uarts EXCEPT ![a] = trace[Len(trace)]]
              /\ h_last' = [NoDriverCall EXCEPT
                               !.op = "configure", !.device = a,
                               !.trace = trace, !.init = init,
                               !.frequency = system_frequency_,
                               !.before = uarts[a]]
    /\ h_calls' = h_calls + 1
    /\ UNCHANGED <<handlers, h_used>>
    /\ Frame({"driver"})

\* uart::set_tx_handler, set_rx_handler, set_tx_overrun_handler and
\* set_rx_overrun_handler: get_handlers(this), then the member is assigned;
\* the callback the application registers for a device is named by the
\* device's address
UartSetHandler ==
    /\ DriverRuns
    /\ \E a \in UartAddresses, member \in Callbacks :
       \E o \in get_handlers_outcomes(handlers, a) :
          /\ handlers' = IF o.slot = 0 THEN o.handlers
                         ELSE [o.handlers EXCEPT ![o.slot][member] = a]
          /\ h_last' = [NoDriverCall EXCEPT
                           !.op = member, !.device = a, !.this = a,
                           !.slot = o.slot, !.asserted = o.asserted]
          /\ h_used' = h_used \cup {a}
    /\ h_calls' = h_calls + 1
    /\ UNCHANGED <<uarts>>
    /\ Frame({"driver"})

\* a call of process_interrupt() on the device at address a, made by op for
\* the device at address device
Dispatch(op, device, a) ==
    \E o \in get_handlers_outcomes(handlers, a) :
       LET steps == IF o.slot = 0 THEN <<>>
                    ELSE process_interrupt(a, uarts[a], o.handlers[o.slot])
       IN  /\ handlers' = o.handlers
           /\ \E w \in interrupt_after(uarts[a].interrupt_, steps) :
                 uarts' = [uarts EXCEPT ![a].interrupt_ = w]
           /\ h_last' = [NoDriverCall EXCEPT
                            !.op = op, !.device = device, !.this = a,
                            !.slot = o.slot, !.asserted = o.asserted,
                            !.steps = steps,
                            !.before = uarts[a]]
           /\ h_used' = h_used \cup {a}
           /\ h_calls' = h_calls + 1

\* uart::process_interrupt() called on a device
UartProcessInterrupt ==
    /\ DriverRuns
    /\ \E a \in UartAddresses : Dispatch("process_interrupt", a, a)
    /\ Frame({"driver"})

\* uart::process_overrun_interrupt() called on a device
UartProcessOverrun ==
    /\ DriverRuns
    /\ \E a \in UartAddresses :
       \E o \in get_handlers_outcomes(handlers, a) :
          /\ handlers' = o.handlers
          /\ h_last' = [NoDriverCall EXCEPT
                 !.op = "process_overrun_interrupt", !.device = a,
                 !.this = a, !.slot = o.slot, !.asserted = o.asserted,
                 !.steps = IF o.slot = 0 THEN <<>>
                           ELSE process_overrun_interrupt(
                                    a, uarts[a], o.handlers[o.slot]),
                 !.before = uarts[a]]
          /\ h_used' = h_used \cup {a}
    /\ h_calls' = h_calls + 1
    /\ UNCHANGED <<uarts>>
    /\ Frame({"driver"})

\* extern "C" uart0_handler(), entered when UART0 raises its tx or rx
\* interrupt
Uart0Handler ==
    /\ DriverRuns
    /\ uarts[vector_of.uart0_handler].interrupt_ \cap {0, 1} # {}
    /\ Dispatch("uart0_handler", vector_of.uart0_handler,
                vector_device.uart0_handler)
    /\ Frame({"driver"})

\* extern "C" uart1_handler(), entered when UART1 raises its tx or rx
\* interrupt
Uart1Handler ==
    /\ DriverRuns
    /\ uarts[vector_of.uart1_handler].interrupt_ \cap {0, 1} # {}
    /\ Dispatch("uart1_handler", vector_of.uart1_handler,
                vector_device.uart1_handler)
    /\ Frame({"driver"})

\* extern "C" uart_ovr_handler(): process_overrun_interrupt() on each
\* device of uart_devices in turn
UartOvrHandler ==
    /\ DriverRuns
    /\ \E o1 \in get_handlers_outcomes(handlers, uart_devices[1]) :
          LET a1 == uart_devices[1]
              a2 == uart_devices[2]
              steps1 == IF o1.slot = 0 THEN <<>>
                        ELSE process_overrun_interrupt(
                                 a1, uarts[a1], o1.handlers[o1.slot])
          IN  IF o1.slot = 0
              THEN /\ handlers' = o1.handlers
                   /\ h_last' = [NoDriverCall EXCEPT
                                    !.op = "uart_ovr_handler",
                                    !.device = a1, !.this = a1,
                                    !.asserted = TRUE]
                   /\ h_used' = h_used \cup {a1}
              ELSE \E o2 \in get_handlers_outcomes(o1.handlers, a2) :
                      /\ handlers' = o2.handlers
                      /\ h_last' = [NoDriverCall EXCEPT
                             !.op = "uart_ovr_handler", !.device = a2,
                             !.this = a2, !.slot = o2.slot,
                             !.asserted = o1.asserted \/ o2.asserted,
                             !.steps = steps1 \o
                                (IF o2.slot = 0 THEN <<>>
                                 ELSE process_overrun_interrupt(
                                          a2, uarts[a2],
                                          o2.handlers[o2.slot]))]
                      /\ h_used' = h_used \cup {a1, a2}
    /\ h_calls' = h_calls + 1
    /\ UNCHANGED <<uarts>>
    /\ Frame({"driver"})

\* the devices out of reset, the table as constructed, the clock before
\* system_init
InitDriver == IdleBut({})

\* the configuration of the devices
SpecConfigure ==
    InitDriver /\ [][DriverSystemInit \/ UartDeviceEvent \/ UartConfigure]_vars

\* the handler table, the dispatch of the interrupts and the vectors
SpecDriver ==
    InitDriver /\ [][UartDeviceEvent \/ UartSetHandler
                     \/ UartProcessInterrupt \/ UartProcessOverrun
                     \/ Uart0Handler \/ Uart1Handler \/ UartOvrHandler]_vars


\* the encoding of init's seven enable flags in bits 0 .. 6
FlagBits(init) ==
    (IF init.enable.tx THEN {0} ELSE {})
    \cup (IF init.enable.rx THEN {1} ELSE {})
    \cup (IF init.enable_interrupt.tx THEN {2} ELSE {})
    \cup (IF init.enable_interrupt.rx THEN {3} ELSE {})
    \cup (IF init.enable_overrun_interrupt.tx THEN {4} ELSE {})
    \cup (IF init.enable_overrun_interrupt.rx THEN {5} ELSE {})
    \cup (IF init.enable_hs_test_mode THEN {6} ELSE {})

\* the device as configure(init) is said to leave it
Configured(init, frequency) ==
    [data_ |-> Bits(0), state_ |-> Bits(0), ctrl_ |-> FlagBits(init),
     interrupt_ |-> Bits(0),
     bauddiv_ |-> Bits(frequency \div init.baud_rate)]

\* C25: uart::configure(init) leaves the device in a state that depends
\* only on init and the system frequency: the control register is the
\* encoding of init's seven flags in bits 0 .. 6 and the baud divisor reads
\* system_frequency / init.baud_rate, whatever the registers held before
\* (so the second of two calls leaves its own divisor); between entry and
\* exit the control register holds its old value, 0 or the new value only.
C25_Configure ==
    h_last.op = "configure" =>
        LET exit == h_last.trace[Len(h_last.trace)]
        IN  /\ exit = Configured(h_last.init, h_last.frequency)
            /\ exit.ctrl_ = FlagBits(h_last.init)
            /\ bauddiv_get(exit.bauddiv_) =
                  Bits(h_last.frequency \div h_last.init.baud_rate)
            /\ \A i \in DOMAIN h_last.trace :
                  h_last.trace[i].ctrl_ \in
                      {h_last.before.ctrl_, Bits(0), FlagBits(h_last.init)}


\* the steps that call a callback
CallbackSteps(steps) ==
    {i \in DOMAIN steps :
        steps[i].ev \in {"rx_callback", "tx_callback", "tx_ovr_callback",
                         "rx_ovr_callback"}}

\* C26: uart::process_interrupt() calls at most one callback, RX before TX:
\* with the RX interrupt pending and an RX callback registered it clears
\* the RX interrupt and then calls the RX callback with the received data;
\* otherwise, with the TX interrupt pending and a TX callback registered, it
\* clears the TX interrupt and then calls the TX callback; a flag is
\* cleared before its callback runs, never after, and a pending interrupt
\* without a registered callback is neither cleared nor dispatched.
C26_Dispatch ==
    (h_last.op = "process_interrupt" /\ ~h_last.asserted) =>
        LET h == handlers[h_last.slot]
            a == h_last.device
            pending == h_last.before.interrupt_
            rx == 1 \in pending /\ h.rx_callback # nullptr
            tx == 0 \in pending /\ h.tx_callback # nullptr
            s == h_last.steps
        IN  /\ Cardinality(CallbackSteps(s)) <= 1
            /\ rx => s = <<Step("clear_rx_interrupt", a, nullptr, Bits(0)),
                           Step("rx_callback", a, h.rx_callback,
                                h_last.before.data_ \cap 0 .. 7)>>
            /\ (~rx /\ tx) =>
                  s = <<Step("clear_tx_interrupt", a, nullptr, Bits(0)),
                        Step("tx_callback", a, h.tx_callback, Bits(0))>>
            /\ (~rx /\ ~tx) => s = <<>>
            /\ \A i \in CallbackSteps(s), j \in DOMAIN s \ CallbackSteps(s) :
                  j < i

\* process_interrupt() with the RX and the TX interrupt pending and both
\* callbacks registered: the RX interrupt is cleared, then the RX callback
\* gets the character 'A'
C26_Witness ==
    /\ h_last.op = "process_interrupt"
    /\ ~h_last.asserted
    /\ {0, 1} \subseteq h_last.before.interrupt_
    /\ handlers[h_last.slot].tx_callback # nullptr
    /\ Len(h_last.steps) = 2
    /\ h_last.steps[2].ev = "rx_callback"
    /\ h_last.steps[2].arg = Bits(65)


\* get_handlers was called for uart_count devices at most: each found a
\* slot and assert(false) was never reached
WithinTable == Cardinality(h_used) <= uart_count

\* C27: each UART vector handler services its own device: uart0_handler
\* calls process_interrupt() on the UART at uart0_address and uart1_handler
\* on the UART at uart1_address, so the callbacks invoked when the UART1
\* interrupt fires are those registered on UART1.
C27_OwnDevice ==
    (h_last.op \in DOMAIN vector_of /\ WithinTable) =>
        /\ h_last.this = vector_of[h_last.op]
        /\ \A i \in CallbackSteps(h_last.steps) :
              h_last.steps[i].cb = vector_of[h_last.op]


\* the devices that hold a slot of the table
TableAddresses ==
    {handlers[i].address : i \in DOMAIN handlers} \ {nullptr}

\* slots are occupied from the first on, without a gap
Contiguous ==
    \A i \in DOMAIN handlers :
        handlers[i].address # nullptr =>
            \A j \in 1 .. (i - 1) : handlers[j].address # nullptr

\* no two slots hold the same device
NoDuplicate ==
    \A i, j \in DOMAIN handlers :
        (i # j /\ handlers[i].address = handlers[j].address) =>
            handlers[i].address = nullptr

\* the callbacks of a slot are those registered for its device
Owned ==
    \A i \in DOMAIN handlers, member \in Callbacks :
        handlers[i][member] \in {nullptr, handlers[i].address}

\* the callbacks the last call invoked are those registered for the device
\* it ran on
Served ==
    \A i \in CallbackSteps(h_last.steps) :
        h_last.steps[i].cb = h_last.steps[i].device

\* C28: the handler table after any calls of the setters and of process_*
\* on at most uart_count (2) distinct devices: slots are occupied
\* contiguously from index 0, no two slots hold the same device,
\* get_handlers(d) returns the same slot for the same d on every call, and a
\* callback registered for one device is never overwritten or invoked on
\* behalf of another; a request for a third distinct device finds no slot
\* and reaches assert(false).
C28_HandlerTable ==
    [][/\ WithinTable' =>
             /\ Contiguous' /\ NoDuplicate' /\ Owned' /\ Served'
             /\ ~h_last'.asserted
             /\ \A d \in h_used :
                   get_handlers(handlers', d).slot =
                       get_handlers(handlers, d).slot
             /\ h_last'.this # nullptr =>
                   /\ h_last'.slot = get_handlers(handlers', h_last'.this).slot
                   /\ handlers'[h_last'.slot].address = h_last'.this
       /\ (WithinTable /\ h_last'.this \notin TableAddresses'
             /\ h_last'.this # nullptr /\ h_last' # h_last) =>
             /\ Cardinality(TableAddresses') = uart_count
             /\ h_last'.asserted]_vars

\* both slots are taken, by UART0 and UART1 with their callbacks, and a
\* setter called on a third device reaches assert(false)
C28_Witness ==
    /\ handlers[1].address = uart0_address
    /\ handlers[1].rx_callback = uart0_address
    /\ handlers[2].address = uart1_address
    /\ handlers[2].tx_callback = uart1_address
    /\ h_last.this = rtc_address
    /\ h_last.asserted

====
